---- MODULE Spec2Model ----
(***************************************************************************)
(* Wanderlust itinerary page (src/js/config.js, section itinerarios.js):   *)
(* the in-memory collection state.itinerarios, its copy in localStorage,   *)
(* the CRUD functions, the filter/search projection and the page's event   *)
(* handlers.                                                               *)
(*                                                                         *)
(* JavaScript strings are sequences of UTF-16 code units (numbers), so     *)
(* that trim, toLowerCase, includes and the < of strings are computed as   *)
(* the engine computes them.  "" is << >>.                                 *)
(***************************************************************************)
EXTENDS Integers, Sequences, FiniteSets, TLC

(***************************************************************************)
(* Bounds of the model.                                                    *)
(***************************************************************************)
\* Number of times the clock advances (by one millisecond) in a run.
MaxTicks == 1
\* Largest length of state.itinerarios a create is tried on.
MaxItems == 2
\* Number of localStorage.setItem calls that can fail (quota) in a run.
MaxFallos == 1

\* calls of a debounced function in a run
MaxLlamadas == 3

\* the longest wait a debounced function is made with, in ms
MaxEspera == 3

\* the longest a due timer is kept waiting, in ms
MaxRetraso == 2

\* the argument lists a debounced function is called with
Argumentos == { 1, 2 }

\* submit events of the search form in a run
MaxEnvios == 3

\* different queries saved to the search history in a run
MaxConsultas == 11

\* saves of a query that was saved before, in a run
MaxRepetidas == 1

(***************************************************************************)
(* String primitives of the engine.                                        *)
(***************************************************************************)
\* White space as String.prototype.trim sees it (the code units used here).
IsSpace(c) == c \in {9, 10, 11, 12, 13, 32, 160}

RECURSIVE trimStart(_)
trimStart(s) ==
  IF s # << >> /\ IsSpace(Head(s)) THEN trimStart(Tail(s)) ELSE s

RECURSIVE trimEnd(_)
trimEnd(s) ==
  IF s # << >> /\ IsSpace(s[Len(s)]) THEN trimEnd(SubSeq(s, 1, Len(s) - 1)) ELSE s

\* String.prototype.trim
trim(s) == trimEnd(trimStart(s))

\* String.prototype.toLowerCase on the Basic Latin letters A..Z
toLowerCase(s) ==
  [i \in 1..Len(s) |-> IF s[i] \in 65..90 THEN s[i] + 32 ELSE s[i]]

\* String.prototype.includes
includes(s, q) ==
  \E i \in 0..(Len(s) - Len(q)) : SubSeq(s, i + 1, i + Len(q)) = q

\* a < b on strings: lexicographic on code units, a proper prefix is smaller
RECURSIVE StrLess(_, _)
StrLess(a, b) ==
  IF b = << >> THEN FALSE
  ELSE IF a = << >> THEN TRUE
  ELSE IF Head(a) # Head(b) THEN Head(a) < Head(b)
  ELSE StrLess(Tail(a), Tail(b))

\* one hexadecimal digit 0..15 as its code unit ('0'..'9', 'a'..'f')
HexDigit(d) == IF d < 10 THEN 48 + d ELSE 87 + d

\* Number.prototype.toString(16) of a non-negative integer
RECURSIVE toString16(_)
toString16(n) ==
  IF n < 16 THEN << HexDigit(n) >>
  ELSE Append(toString16(n \div 16), HexDigit(n % 16))

\* a decimal number left-padded with zeros to w digits
RECURSIVE Pad(_, _)
Pad(n, w) ==
  IF w = 0 THEN << >> ELSE Append(Pad(n \div 10, w - 1), 48 + (n % 10))

\* Date.prototype.toISOString of the instant t (milliseconds since the
\* epoch), for instants within the first minute: 1970-01-01T00:00:SS.mmmZ
toISOString(t) ==
  << 49, 57, 55, 48, 45, 48, 49, 45, 48, 49, 84, 48, 48, 58, 48, 48, 58 >>
    \o Pad((t \div 1000) % 60, 2) \o << 46 >> \o Pad(t % 1000, 3) \o << 90 >>

(***************************************************************************)
(* State.                                                                  *)
(***************************************************************************)
VARIABLES
  now,           \* Date.now(): the wall clock, in milliseconds
  itinerarios,   \* state.itinerarios
  filtroActual,  \* state.filtroActual
  busqueda,      \* state.busqueda
  editandoId,    \* state.editandoId  (null is << >>: both are falsy)
  eliminandoId,  \* state.eliminandoId
  localStorage,  \* the text localStorage holds under STORAGE_KEY (absent: << >>)
  dom,           \* what the page shows: areas, cards, modals, flagged fields
  cuota,         \* number of writes localStorage will still refuse (quota)
  lastOp,        \* the latest call or event, its arguments and its result
  otraPestana,   \* state.itinerarios of a second tab open on the same page
  timers,        \* the timers the browser holds: [id, resta, fn, args]
  timerId,       \* the id the latest setTimeout returned (0: none yet)
  timeout,       \* debounce: the variable timeout of the closure (0: undefined)
  wait,          \* debounce: the wait the closure was made with
  rebote,        \* debounce: the calls and the runs of func so far
  appState,      \* search page: appState
  historial,     \* the text localStorage holds under SEARCH_HISTORY (absent: << >>)
  elements,      \* search page: the error box and the submit button
  location,      \* window.location.href once the page has navigated (<< >>: not yet)
  buscador       \* search page: submits, history writes and navigations so far

\* the itinerary page of the running tab and its storage
varsItinerarios == << itinerarios, filtroActual, busqueda, editandoId, eliminandoId,
                     localStorage, dom, cuota >>

\* the closure of a debounced function
varsRebote == << timeout, wait, rebote >>

\* the search page
varsBuscador == << appState, historial, elements, location, buscador >>

\* what lies outside the tab of the itinerary page that is running
varsOtros == << otraPestana, timers, timerId, varsRebote, varsBuscador >>

vars == << now, itinerarios, filtroActual, busqueda, editandoId, eliminandoId,
           localStorage, dom, cuota, lastOp, varsOtros >>

\* null / undefined, and the empty string: the values `if (x)` takes as false
NULL == << >>

\* the three values of a record's estado, and the values of data-filter
ESTADOS == {"planificando", "confirmado", "completado"}
FILTROS == {"todos"} \cup ESTADOS

(***************************************************************************)
(* Objects: a record is a function from property names to values.          *)
(***************************************************************************)
\* { ...a, ...b }
Spread(a, b) ==
  [k \in (DOMAIN a) \cup (DOMAIN b) |-> IF k \in DOMAIN b THEN b[k] ELSE a[k]]

\* Array.prototype.findIndex on the id; positions count from 1, 0 is JS's -1
RECURSIVE findIndexFrom(_, _, _)
findIndexFrom(its, id, i) ==
  IF i > Len(its) THEN 0
  ELSE IF its[i]["id"] = id THEN i
  ELSE findIndexFrom(its, id, i + 1)

findIndex(its, id) == findIndexFrom(its, id, 1)

\* Array.prototype.find on the id: whether a record is found
find(its, id) == findIndex(its, id) # 0

(***************************************************************************)
(* JSON and localStorage (utils: setStorage, getStorage).                  *)
(***************************************************************************)
\* the order JSON.stringify writes the properties in (absent ones are skipped)
PROPIEDADES ==
  << "id", "nombre", "destino", "fechaInicio", "fechaFin", "estado", "budget",
     "notas", "creadoEn", "actualizadoEn", "query", "timestamp" >>

\* JSON.stringify of one record: its members, name and value, in order
stringifyObject(it) ==
  LET present == SelectSeq(PROPIEDADES, LAMBDA k : k \in DOMAIN it)
  IN  [i \in 1..Len(present) |-> << present[i], it[present[i]] >>]

\* JSON.stringify of the collection: the text of a JSON array
JSONstringify(its) ==
  << "[", [i \in 1..Len(its) |-> stringifyObject(its[i])], "]" >>

\* the texts null and {}, and the values JSON.parse gives for them: null
\* and an object, neither of them an array.  Such a value is held as one
\* slot carrying the mark of its type, which no record of an array has.
TextoNull == << "null" >>
TextoObjeto == << "{", "}" >>
JSnull == << [tipo |-> "null"] >>
JSobjeto == << [tipo |-> "object"] >>

\* Array.isArray
EsArray(v) == ~(Len(v) = 1 /\ "tipo" \in DOMAIN v[1])

\* whether JSON.parse accepts the text: null, {}, or an array closed by ]
IsJSON(text) ==
  \/ text = TextoNull
  \/ text = TextoObjeto
  \/ (Len(text) = 3 /\ text[1] = "[" /\ text[3] = "]")

\* JSON.parse of one object (its member names are distinct)
parseObject(members) ==
  [k \in {members[i][1] : i \in 1..Len(members)} |->
     members[CHOOSE i \in 1..Len(members) : members[i][1] = k][2]]

\* JSON.parse of an accepted text
JSONparse(text) ==
  IF text = TextoNull THEN JSnull
  ELSE IF text = TextoObjeto THEN JSobjeto
  ELSE [i \in 1..Len(text[2]) |-> parseObject(text[2][i])]

\* setStorage removing the key when the write fails
setStorageBorraAlFallar(held, value, quotaOk) ==
  IF quotaOk
  THEN [ret |-> TRUE, held |-> JSONstringify(value)]
  ELSE [ret |-> FALSE, held |-> << >>]

\* setStorage(key, value) on the text held under the key.  setItem throws
\* (quota exceeded) when quotaOk is false; the catch returns false.
setStorage(held, value, quotaOk) ==
  IF quotaOk
  THEN [ret |-> TRUE, held |-> JSONstringify(value)]
  ELSE [ret |-> FALSE, held |-> held]

\* getStorage(key, defaultValue) on the text held under the key
getStorage(held, defaultValue) ==
  IF held # NULL
  THEN IF IsJSON(held) THEN JSONparse(held) ELSE defaultValue
  ELSE defaultValue

\* cargarItinerarios: the value state.itinerarios gets
cargarItinerarios(held) == getStorage(held, << >>)

(***************************************************************************)
(* CRUD.  Each function is given the collection it works on and returns    *)
(* the collection it leaves (its), its return value (ret) and whether it   *)
(* went on to call guardarItinerarios (guardar).                           *)
(***************************************************************************)
\* 'it_' + Date.now().toString(16)
NuevoId(t) == << 105, 116, 95 >> \o toString16(t)

\* crearItinerario adding the new record with push, at the end
crearItinerarioAlFinal(its, datos, t) ==
  LET nuevo == Spread(Spread([id |-> NuevoId(t)], datos),
                      [creadoEn |-> toISOString(t)])
  IN  [its |-> Append(its, nuevo), ret |-> nuevo, guardar |-> TRUE]

crearItinerario(its, datos, t) ==
  LET nuevo == Spread(Spread([id |-> NuevoId(t)], datos),
                      [creadoEn |-> toISOString(t)])
  IN  [its |-> << nuevo >> \o its, ret |-> nuevo, guardar |-> TRUE]

\* editarItinerario with an upsert: an id that is not found is added
editarItinerarioUpsert(its, id, datos, t) ==
  LET index == findIndex(its, id)
      hecho == Spread(datos, [actualizadoEn |-> toISOString(t)])
  IN  IF index = 0
      THEN [its |-> Append(its, Spread([id |-> id], hecho)),
            ret |-> FALSE, guardar |-> TRUE]
      ELSE [its |-> [its EXCEPT ![index] = Spread(its[index], hecho)],
            ret |-> TRUE, guardar |-> TRUE]

\* editarItinerario without the spread of the record it edits
editarItinerarioReemplaza(its, id, datos, t) ==
  LET index == findIndex(its, id)
  IN  IF index = 0
      THEN [its |-> its, ret |-> FALSE, guardar |-> FALSE]
      ELSE [its |-> [its EXCEPT ![index] =
                       Spread(Spread([id |-> id], datos),
                              [actualizadoEn |-> toISOString(t)])],
            ret |-> TRUE, guardar |-> TRUE]

\* editarItinerario stamping creadoEn as crearItinerario does
editarItinerarioSellaCreado(its, id, datos, t) ==
  LET index == findIndex(its, id)
  IN  IF index = 0
      THEN [its |-> its, ret |-> FALSE, guardar |-> FALSE]
      ELSE [its |-> [its EXCEPT ![index] =
                       Spread(Spread(its[index], datos),
                              [creadoEn |-> toISOString(t),
                               actualizadoEn |-> toISOString(t)])],
            ret |-> TRUE, guardar |-> TRUE]

editarItinerario(its, id, datos, t) ==
  LET index == findIndex(its, id)
  IN  IF index = 0
      THEN [its |-> its, ret |-> FALSE, guardar |-> FALSE]
      ELSE [its |-> [its EXCEPT ![index] =
                       Spread(Spread(its[index], datos),
                              [actualizadoEn |-> toISOString(t)])],
            ret |-> TRUE, guardar |-> TRUE]

eliminarItinerario(its, id) ==
  [its |-> SelectSeq(its, LAMBDA it : it["id"] # id),
   ret |-> NULL, guardar |-> TRUE]

(***************************************************************************)
(* Projection and rendering.                                               *)
(***************************************************************************)
\* getItinerariosFiltrados searching the whole collection, not the records
\* the status filter kept
getItinerariosFiltradosSinEstado(its, filtro, busq) ==
  LET lista1 == IF filtro # "todos"
                THEN SelectSeq(its, LAMBDA it : it["estado"] = filtro)
                ELSE its
  IN  IF trim(busq) # << >>
      THEN LET q == toLowerCase(busq)
           IN  SelectSeq(its, LAMBDA it :
                 \/ includes(toLowerCase(it["destino"]), q)
                 \/ includes(toLowerCase(it["nombre"]), q))
      ELSE lista1

getItinerariosFiltrados(its, filtro, busq) ==
  LET lista1 == IF filtro # "todos"
                THEN SelectSeq(its, LAMBDA it : it["estado"] = filtro)
                ELSE its
  IN  IF trim(busq) # << >>
      THEN LET q == toLowerCase(busq)
           IN  SelectSeq(lista1, LAMBDA it :
                 \/ includes(toLowerCase(it["destino"]), q)
                 \/ includes(toLowerCase(it["nombre"]), q))
      ELSE lista1

\* renderCards without the line that hides the empty state once there are
\* records
renderCardsSinOcultar(d, its, filtro, busq) ==
  LET filtrados == getItinerariosFiltrados(its, filtro, busq)
  IN  IF Len(its) = 0
      THEN [d EXCEPT !.grid = "none", !.emptyState = "flex", !.noResults = "none"]
      ELSE IF Len(filtrados) = 0
      THEN [d EXCEPT !.grid = "none", !.noResults = "block"]
      ELSE [d EXCEPT !.grid = "grid", !.noResults = "none",
                     !.cards = [i \in 1..Len(filtrados) |-> filtrados[i]["id"]]]

\* renderCards: the display of the three areas and the cards of the grid
\* (the ids of the articles written to grid.innerHTML), from the page d
renderCards(d, its, filtro, busq) ==
  LET filtrados == getItinerariosFiltrados(its, filtro, busq)
  IN  IF Len(its) = 0
      THEN [d EXCEPT !.grid = "none", !.emptyState = "flex", !.noResults = "none"]
      ELSE IF Len(filtrados) = 0
      THEN [d EXCEPT !.emptyState = "none", !.grid = "none", !.noResults = "block"]
      ELSE [d EXCEPT !.emptyState = "none", !.grid = "grid", !.noResults = "none",
                     !.cards = [i \in 1..Len(filtrados) |-> filtrados[i]["id"]]]

(***************************************************************************)
(* The form: validarForm and the data handleGuardar reads from it.         *)
(* A form is the values of the seven inputs.                               *)
(***************************************************************************)
\* number of leading decimal digits of s
RECURSIVE DigitsLen(_)
DigitsLen(s) ==
  IF s # << >> /\ Head(s) \in 48..57 THEN 1 + DigitsLen(Tail(s)) ELSE 0

\* the number the decimal digits s write
RECURSIVE DecValue(_)
DecValue(s) ==
  IF s = << >> THEN 0 ELSE 10 * DecValue(SubSeq(s, 1, Len(s) - 1)) + (s[Len(s)] - 48)

\* parseFloat on texts of the shape [space]* [+-]? digit* rest (no fraction,
\* no exponent): NaN when no digit follows the sign
parseFloat(s) ==
  LET t == trimStart(s)
      signed == t # << >> /\ Head(t) \in {43, 45}
      u == IF signed THEN Tail(t) ELSE t
      n == DigitsLen(u)
      v == DecValue(SubSeq(u, 1, n))
  IN  IF n = 0 THEN [nan |-> TRUE, val |-> 0]
      ELSE [nan |-> FALSE, val |-> IF signed /\ Head(t) = 45 THEN 0 - v ELSE v]

\* parseFloat(x) || 1500
Budget(s) ==
  LET p == parseFloat(s) IN IF p.nan \/ p.val = 0 THEN 1500 ELSE p.val

\* validarForm stopping at the first rule that fails
validarFormCortocircuito(form) ==
  LET nombre == trim(form.nombre)
      destino == trim(form.destino)
      fechaInicio == form.fechaInicio
      fechaFin == form.fechaFin
      errores ==
        IF nombre = << >> THEN {"fg-nombre"}
        ELSE IF destino = << >> THEN {"fg-destino"}
        ELSE IF fechaInicio = << >> THEN {"fg-fecha-inicio"}
        ELSE IF fechaFin = << >> \/ (fechaInicio # << >> /\ StrLess(fechaFin, fechaInicio))
        THEN {"fg-fecha-fin"}
        ELSE {}
  IN  [valido |-> errores = {}, errores |-> errores]

\* validarForm without the comparison of the two dates
validarFormSinOrden(form) ==
  LET nombre == trim(form.nombre)
      destino == trim(form.destino)
      fechaInicio == form.fechaInicio
      fechaFin == form.fechaFin
      errores ==
        (IF nombre = << >> THEN {"fg-nombre"} ELSE {})
        \cup (IF destino = << >> THEN {"fg-destino"} ELSE {})
        \cup (IF fechaInicio = << >> THEN {"fg-fecha-inicio"} ELSE {})
        \cup (IF fechaFin = << >> THEN {"fg-fecha-fin"} ELSE {})
  IN  [valido |-> errores = {}, errores |-> errores]

\* validarForm: the groups it flags with has-error, and its verdict
validarForm(form) ==
  LET nombre == trim(form.nombre)
      destino == trim(form.destino)
      fechaInicio == form.fechaInicio
      fechaFin == form.fechaFin
      errores ==
        (IF nombre = << >> THEN {"fg-nombre"} ELSE {})
        \cup (IF destino = << >> THEN {"fg-destino"} ELSE {})
        \cup (IF fechaInicio = << >> THEN {"fg-fecha-inicio"} ELSE {})
        \cup (IF fechaFin = << >> \/ (fechaInicio # << >> /\ StrLess(fechaFin, fechaInicio))
              THEN {"fg-fecha-fin"} ELSE {})
  IN  [valido |-> errores = {}, errores |-> errores]

\* the object handleGuardar builds from the inputs
Datos(form) ==
  [nombre |-> trim(form.nombre),
   destino |-> trim(form.destino),
   fechaInicio |-> form.fechaInicio,
   fechaFin |-> form.fechaFin,
   estado |-> form.estado,
   budget |-> Budget(form.budget),
   notas |-> trim(form.notas)]

(***************************************************************************)
(* Dates: new Date('YYYY-MM-DD') and calcularDias.  A time value is held   *)
(* as whole days since 1970-01-01 (dia) and milliseconds of the day (ms).  *)
(***************************************************************************)
\* the year, month and day a date-only text YYYY-MM-DD names
Fecha(s) ==
  << DecValue(SubSeq(s, 1, 4)), DecValue(SubSeq(s, 6, 7)), DecValue(SubSeq(s, 9, 10)) >>

\* the day number of a year, month and day, counted from 1970-01-01
\* (years from 1 March, eras of 400 years)
MakeDay(y, m, d) ==
  LET a == IF m <= 2 THEN y - 1 ELSE y
      era == a \div 400
      yoe == a - era * 400
      doy == (153 * (IF m > 2 THEN m - 3 ELSE m + 9) + 2) \div 5 + d - 1
      doe == yoe * 365 + yoe \div 4 - yoe \div 100 + doy
  IN  era * 146097 + doe - 719468

\* new Date(s) of a date-only text: the time value of its UTC midnight
NewDate(s) == [dia |-> MakeDay(Fecha(s)[1], Fecha(s)[2], Fecha(s)[3]), ms |-> 0]

\* Math.ceil(diff / (1000 * 60 * 60 * 24)) of a difference of time values
CeilDias(diff) == diff.dia + (0 - ((0 - diff.ms) \div (1000 * 60 * 60 * 24)))

\* Math.max
Max(a, b) == IF a >= b THEN a ELSE b

\* calcularDias without the + 1
calcularDiasSinMasUno(fechaInicio, fechaFin) ==
  LET inicio == NewDate(fechaInicio)
      fin == NewDate(fechaFin)
      diff == [dia |-> fin.dia - inicio.dia, ms |-> fin.ms - inicio.ms]
  IN  Max(1, CeilDias(diff))

calcularDias(fechaInicio, fechaFin) ==
  LET inicio == NewDate(fechaInicio)
      fin == NewDate(fechaFin)
      diff == [dia |-> fin.dia - inicio.dia, ms |-> fin.ms - inicio.ms]
  IN  Max(1, CeilDias(diff) + 1)

(***************************************************************************)
(* Inputs the model draws from.                                            *)
(***************************************************************************)
\* the instants the clock takes
Instantes == 999..(999 + MaxTicks)

\* ids the clock can give
Ids == {NuevoId(t) : t \in Instantes}

\* what the user leaves in the form before pressing Guardar:
\*   nombre " Asia ", destino "Tokyo", 2026-03-01 to 2026-03-03, no budget
\*   nombre "Tour", destino "Paris", 2026-03-01 to 2026-03-01, budget "250"
\*   nombre "  ", destino "Tokyo", 2026-03-03 to 2026-03-01 (not valid)
Formularios ==
  { [nombre |-> << 32, 65, 115, 105, 97, 32 >>, destino |-> << 84, 111, 107, 121, 111 >>,
     fechaInicio |-> << 50, 48, 50, 54, 45, 48, 51, 45, 48, 49 >>,
     fechaFin |-> << 50, 48, 50, 54, 45, 48, 51, 45, 48, 51 >>,
     estado |-> "planificando", budget |-> << >>, notas |-> << >>],
    [nombre |-> << 84, 111, 117, 114 >>, destino |-> << 80, 97, 114, 105, 115 >>,
     fechaInicio |-> << 50, 48, 50, 54, 45, 48, 51, 45, 48, 49 >>,
     fechaFin |-> << 50, 48, 50, 54, 45, 48, 51, 45, 48, 49 >>,
     estado |-> "completado", budget |-> << 50, 53, 48 >>, notas |-> << 111, 107 >>],
    [nombre |-> << 32, 32 >>, destino |-> << 84, 111, 107, 121, 111 >>,
     fechaInicio |-> << 50, 48, 50, 54, 45, 48, 51, 45, 48, 51 >>,
     fechaFin |-> << 50, 48, 50, 54, 45, 48, 51, 45, 48, 49 >>,
     estado |-> "confirmado", budget |-> << >>, notas |-> << >>] }

\* valid field sets: what the form hands to crearItinerario
DatosValidos == {Datos(f) : f \in {g \in Formularios : validarForm(g).valido}}

\* payloads of a direct editarItinerario call: {estado: 'confirmado'} and {}
DatosParciales == { [estado |-> "confirmado"], << >> }

\* what the user types in the search box: "", "tO", " to"
Busquedas == { << >>, << 116, 79 >>, << 32, 116, 111 >> }

\* search terms the projection is computed for: also " ", "SI", "to "
Terminos == Busquedas \cup { << 32 >>, << 83, 73 >>, << 116, 111, 32 >> }

\* the first form of Formularios: " Asia ", "Tokyo", 2026-03-01 to 2026-03-03
FormularioAsia ==
  [nombre |-> << 32, 65, 115, 105, 97, 32 >>, destino |-> << 84, 111, 107, 121, 111 >>,
   fechaInicio |-> << 50, 48, 50, 54, 45, 48, 51, 45, 48, 49 >>,
   fechaFin |-> << 50, 48, 50, 54, 45, 48, 51, 45, 48, 51 >>,
   estado |-> "planificando", budget |-> << >>, notas |-> << >>]

\* what the budget input can hold: "", "250", "0", "-5", "abc"
Presupuestos ==
  { << >>, << 50, 53, 48 >>, << 48 >>, << 45, 53 >>, << 97, 98, 99 >> }

\* forms of the dialog: the first form with each budget, the same form with
\* its two dates exchanged, and the form with a blank nombre
FormulariosDialogo ==
  { [FormularioAsia EXCEPT !.budget = b] : b \in Presupuestos }
  \cup { [FormularioAsia EXCEPT !.fechaInicio = FormularioAsia.fechaFin,
                                !.fechaFin = FormularioAsia.fechaInicio] }
  \cup { f \in Formularios : ~validarForm(f).valido }

\* values of the four validated inputs:
\*   nombre "", "  ", " Asia "; destino "", " ", "X";
\*   fechaInicio "", "2026-01-01", "2026-03-03";
\*   fechaFin "", "2025-12-31", "2026-01-01", "2026-03-03"
Entradas ==
  { [nombre |-> n, destino |-> d, fechaInicio |-> fi, fechaFin |-> ff,
     estado |-> "planificando", budget |-> << >>, notas |-> << >>] :
      n \in { << >>, << 32, 32 >>, << 32, 65, 115, 105, 97, 32 >> },
      d \in { << >>, << 32 >>, << 88 >> },
      fi \in { << >>, << 50, 48, 50, 54, 45, 48, 49, 45, 48, 49 >>,
               << 50, 48, 50, 54, 45, 48, 51, 45, 48, 51 >> },
      ff \in { << >>, << 50, 48, 50, 53, 45, 49, 50, 45, 51, 49 >>,
               << 50, 48, 50, 54, 45, 48, 49, 45, 48, 49 >>,
               << 50, 48, 50, 54, 45, 48, 51, 45, 48, 51 >> } }

\* dates given to calcularDias: 2024-02-28, 2024-02-29, 2024-03-01,
\* 2024-12-31, 2025-01-01, 2025-02-28, 2025-03-01, 2025-12-31, 2026-01-01,
\* 2026-03-01, 2026-03-03
Fechas ==
  { << 50, 48, 50, 52, 45, 48, 50, 45, 50, 56 >>,
    << 50, 48, 50, 52, 45, 48, 50, 45, 50, 57 >>,
    << 50, 48, 50, 52, 45, 48, 51, 45, 48, 49 >>,
    << 50, 48, 50, 52, 45, 49, 50, 45, 51, 49 >>,
    << 50, 48, 50, 53, 45, 48, 49, 45, 48, 49 >>,
    << 50, 48, 50, 53, 45, 48, 50, 45, 50, 56 >>,
    << 50, 48, 50, 53, 45, 48, 51, 45, 48, 49 >>,
    << 50, 48, 50, 53, 45, 49, 50, 45, 51, 49 >>,
    << 50, 48, 50, 54, 45, 48, 49, 45, 48, 49 >>,
    << 50, 48, 50, 54, 45, 48, 51, 45, 48, 49 >>,
    << 50, 48, 50, 54, 45, 48, 51, 45, 48, 51 >> }

\* collections handed to setStorage: none, one and two records
Colecciones ==
  { << >>,
    crearItinerario(<< >>, Datos(FormularioAsia), 999).its,
    crearItinerario(crearItinerario(<< >>, Datos(FormularioAsia), 999).its,
                    Datos(FormularioAsia), 1000).its }

\* what the key can hold when the page loads: nothing, a text cut short
\* ( [ ), the texts null and {}, and stored collections
Textos ==
  { << >>, << "[" >>, TextoNull, TextoObjeto }
  \cup { JSONstringify(c) : c \in Colecciones }

(***************************************************************************)
(* Initial state: the page has run init() on an empty localStorage.        *)
(***************************************************************************)
\* the page as the document ships it, before the first render
Documento ==
  [grid |-> "grid", emptyState |-> "none", noResults |-> "none", cards |-> << >>,
   modalForm |-> FALSE, modalConfirm |-> FALSE, errores |-> {}]

\* the record of the latest call or event: its name, the id and the data it
\* was given, what the store function returned, the toast it showed ("": none)
Op(op, id, datos, ret, toast) ==
  [op |-> op, id |-> id, datos |-> datos, ret |-> ret, toast |-> toast]

\* no call of the debounced function yet: llamadas counts the calls, desde the
\* milliseconds since the latest call, corridas the runs of func since that
\* call; args is what the latest call was given, ultimo what func last ran with
SinLlamadas == [llamadas |-> 0, desde |-> 0, corridas |-> 0, args |-> 0, ultimo |-> 0]

\* no timer is set
InitTimers ==
  /\ timers = {}
  /\ timerId = 0

\* no debounced function has been made
SinRebote ==
  /\ timeout = 0
  /\ wait = 0
  /\ rebote = SinLlamadas

\* appState as the script of the search page declares it
AppState == [searchHistory |-> << >>, isSearching |-> FALSE, currentQuery |-> << >>]

\* the error box (hidden, empty) and the submit button of the search form
Elements ==
  [searchError |-> [textContent |-> << >>, show |-> FALSE],
   searchButton |-> [disabled |-> FALSE]]

\* no submit yet: envios counts the submit events, escrituras the writes of
\* the history, consultas the different queries saved, navegaciones the
\* navigations; resultado is what became of the latest submit, aceptada the
\* query the page accepted and desde the milliseconds since it did
SinEnvios ==
  [envios |-> 0, escrituras |-> 0, consultas |-> 0, navegaciones |-> 0,
   resultado |-> "", aceptada |-> << >>, desde |-> 0]

\* the search page is not open
SinBuscador ==
  /\ appState = AppState
  /\ historial = << >>
  /\ elements = Elements
  /\ location = << >>
  /\ buscador = SinEnvios

\* no second tab is open, nothing is scheduled
InitOtros ==
  /\ otraPestana = << >>
  /\ InitTimers
  /\ SinRebote
  /\ SinBuscador

\* a step of the running tab leaves the rest as it is
Aparte == UNCHANGED varsOtros

\* the itinerary page after init() on an empty localStorage that will refuse
\* c writes
InitPagina(c) ==
  /\ now = 999
  /\ localStorage = NULL
  /\ itinerarios = cargarItinerarios(NULL)
  /\ filtroActual = "todos"
  /\ busqueda = << >>
  /\ editandoId = NULL
  /\ eliminandoId = NULL
  /\ dom = renderCards(Documento, cargarItinerarios(NULL), "todos", << >>)
  /\ cuota = c

\* the page after init(), with a storage that will refuse c writes
InitCon(c) ==
  /\ InitPagina(c)
  /\ lastOp = Op("init", NULL, << >>, NULL, "")
  /\ InitOtros

Init == InitCon(MaxFallos)

\* the same page on a storage that accepts every write
InitUI == InitCon(0)

(***************************************************************************)
(* Steps of the environment and of the store.                              *)
(***************************************************************************)
\* a millisecond passes
Tick ==
  /\ now + 1 \in Instantes
  /\ now' = now + 1
  /\ Aparte
  /\ lastOp' = Op("tick", NULL, << >>, NULL, "")
  /\ UNCHANGED << itinerarios, filtroActual, busqueda, editandoId, eliminandoId,
                  localStorage, dom, cuota >>

\* a guardarItinerarios that first reads the key and keeps the stored records
\* the tab does not hold
guardarItinerariosFusiona(its) ==
  \E quotaOk \in BOOLEAN :
    /\ quotaOk \/ cuota > 0
    /\ localStorage' =
         setStorage(localStorage,
                    its \o SelectSeq(cargarItinerarios(localStorage),
                                     LAMBDA it : \A i \in 1..Len(its) : its[i] # it),
                    quotaOk).held
    /\ cuota' = IF quotaOk THEN cuota ELSE cuota - 1

\* guardarItinerarios: setStorage(STORAGE_KEY, state.itinerarios), its result
\* dropped; the write may fail while the storage still has refusals left
guardarItinerarios(its) ==
  \E quotaOk \in BOOLEAN :
    /\ quotaOk \/ cuota > 0
    /\ localStorage' = setStorage(localStorage, its, quotaOk).held
    /\ cuota' = IF quotaOk THEN cuota ELSE cuota - 1

\* the effect of a CRUD call with result r on the collection and the storage
Commit(r) ==
  /\ itinerarios' = r.its
  /\ IF r.guardar THEN guardarItinerarios(r.its)
                  ELSE UNCHANGED << localStorage, cuota >>

\* a direct call crearItinerario(datos)
Crear(datos) ==
  /\ Len(itinerarios) < MaxItems
  /\ LET r == crearItinerario(itinerarios, datos, now)
     IN  /\ Commit(r)
         /\ Aparte
         /\ lastOp' = Op("crear", r.ret["id"], datos, r.ret, "")
  /\ UNCHANGED << now, filtroActual, busqueda, editandoId, eliminandoId, dom >>

\* a direct call editarItinerario(id, datos)
Editar(id, datos) ==
  /\ LET r == editarItinerario(itinerarios, id, datos, now)
     IN  /\ Commit(r)
         /\ Aparte
         /\ lastOp' = Op("editar", id, datos, r.ret, "")
  /\ UNCHANGED << now, filtroActual, busqueda, editandoId, eliminandoId, dom >>

\* a direct call eliminarItinerario(id)
Eliminar(id) ==
  /\ LET r == eliminarItinerario(itinerarios, id)
     IN  /\ Commit(r)
         /\ Aparte
         /\ lastOp' = Op("eliminar", id, << >>, r.ret, "")
  /\ UNCHANGED << now, filtroActual, busqueda, editandoId, eliminandoId, dom >>

(***************************************************************************)
(* Event handlers of the page.                                             *)
(***************************************************************************)
\* the filter listener keeping the filtered list as the collection
InputFiltroGuardaLista(f) ==
  /\ filtroActual' = f
  /\ itinerarios' = getItinerariosFiltrados(itinerarios, f, busqueda)
  /\ dom' = renderCards(dom, itinerarios', f, busqueda)
  /\ Aparte
  /\ lastOp' = Op("filtro", NULL, << >>, NULL, "")
  /\ UNCHANGED << now, busqueda, editandoId, eliminandoId, localStorage, cuota >>

\* click on a filter button: initFilters' listener
InputFiltro(f) ==
  /\ filtroActual' = f
  /\ dom' = renderCards(dom, itinerarios, f, busqueda)
  /\ Aparte
  /\ lastOp' = Op("filtro", NULL, << >>, NULL, "")
  /\ UNCHANGED << now, itinerarios, busqueda, editandoId, eliminandoId,
                  localStorage, cuota >>

\* input in the search box: initFilters' listener
InputBusqueda(q) ==
  /\ busqueda' = q
  /\ dom' = renderCards(dom, itinerarios, filtroActual, q)
  /\ Aparte
  /\ lastOp' = Op("busqueda", NULL, << >>, NULL, "")
  /\ UNCHANGED << now, itinerarios, filtroActual, editandoId, eliminandoId,
                  localStorage, cuota >>

\* the ids of the cards the grid shows: the buttons a user can press
CardIds == IF dom.grid = "grid" THEN {dom.cards[i] : i \in 1..Len(dom.cards)} ELSE {}

\* abrirFormNuevo leaving state.editandoId as it is
abrirFormNuevoSinReinicio ==
  /\ dom' = [dom EXCEPT !.errores = {}, !.modalForm = TRUE]
  /\ Aparte
  /\ lastOp' = Op("abrirFormNuevo", NULL, << >>, NULL, "")
  /\ UNCHANGED << now, itinerarios, filtroActual, busqueda, editandoId,
                  eliminandoId, localStorage, cuota >>

abrirFormNuevo ==
  /\ editandoId' = NULL
  /\ dom' = [dom EXCEPT !.errores = {}, !.modalForm = TRUE]
  /\ Aparte
  /\ lastOp' = Op("abrirFormNuevo", NULL, << >>, NULL, "")
  /\ UNCHANGED << now, itinerarios, filtroActual, busqueda, eliminandoId,
                  localStorage, cuota >>

abrirFormEditar(id) ==
  /\ IF ~find(itinerarios, id)
     THEN UNCHANGED << editandoId, dom >>
     ELSE /\ editandoId' = id
          /\ dom' = [dom EXCEPT !.errores = {}, !.modalForm = TRUE]
  /\ Aparte
  /\ lastOp' = Op("abrirFormEditar", id, << >>, NULL, "")
  /\ UNCHANGED << now, itinerarios, filtroActual, busqueda, eliminandoId,
                  localStorage, cuota >>

\* handleGuardar going on whatever validarForm returns
handleGuardarSinValidar(form) ==
  LET v == validarForm(form)
      datos == Datos(form)
  IN  /\ IF editandoId # NULL
         THEN LET r == editarItinerario(itinerarios, editandoId, datos, now)
              IN  /\ Commit(r)
                  /\ Aparte
                  /\ lastOp' = Op("handleGuardar", editandoId, datos, r.ret,
                                  "Itinerario actualizado correctamente")
         ELSE /\ Len(itinerarios) < MaxItems
              /\ LET r == crearItinerario(itinerarios, datos, now)
                 IN  /\ Commit(r)
                     /\ Aparte
                     /\ lastOp' = Op("handleGuardar", NULL, datos, r.ret,
                                     "Itinerario creado correctamente")
      /\ dom' = renderCards([dom EXCEPT !.errores = v.errores, !.modalForm = FALSE],
                            itinerarios', filtroActual, busqueda)
      /\ UNCHANGED << now, filtroActual, busqueda, editandoId, eliminandoId >>

\* click on Guardar with the inputs holding form
handleGuardar(form) ==
  LET v == validarForm(form)
      datos == Datos(form)
  IN  IF ~v.valido
      THEN /\ dom' = [dom EXCEPT !.errores = v.errores]
           /\ Aparte
           /\ lastOp' = Op("handleGuardar", editandoId, << >>, NULL, "")
           /\ UNCHANGED << now, itinerarios, filtroActual, busqueda, editandoId,
                           eliminandoId, localStorage, cuota >>
      ELSE /\ IF editandoId # NULL
              THEN LET r == editarItinerario(itinerarios, editandoId, datos, now)
                   IN  /\ Commit(r)
                       /\ Aparte
                       /\ lastOp' = Op("handleGuardar", editandoId, datos, r.ret,
                                       "Itinerario actualizado correctamente")
              ELSE /\ Len(itinerarios) < MaxItems
                   /\ LET r == crearItinerario(itinerarios, datos, now)
                      IN  /\ Commit(r)
                          /\ Aparte
                          /\ lastOp' = Op("handleGuardar", NULL, datos, r.ret,
                                          "Itinerario creado correctamente")
           /\ dom' = renderCards([dom EXCEPT !.errores = {}, !.modalForm = FALSE],
                                 itinerarios', filtroActual, busqueda)
           /\ UNCHANGED << now, filtroActual, busqueda, editandoId, eliminandoId >>

abrirConfirmEliminar(id) ==
  /\ IF ~find(itinerarios, id)
     THEN UNCHANGED << eliminandoId, dom >>
     ELSE /\ eliminandoId' = id
          /\ dom' = [dom EXCEPT !.modalConfirm = TRUE]
  /\ Aparte
  /\ lastOp' = Op("abrirConfirmEliminar", id, << >>, NULL, "")
  /\ UNCHANGED << now, itinerarios, filtroActual, busqueda, editandoId,
                  localStorage, cuota >>

\* click on the Eliminar button of the confirmation
handleEliminar ==
  IF eliminandoId = NULL
  THEN /\ Aparte /\ lastOp' = Op("handleEliminar", NULL, << >>, NULL, "")
       /\ UNCHANGED << now, itinerarios, filtroActual, busqueda, editandoId,
                       eliminandoId, localStorage, dom, cuota >>
  ELSE /\ Commit(eliminarItinerario(itinerarios, eliminandoId))
       /\ eliminandoId' = NULL
       /\ dom' = renderCards([dom EXCEPT !.modalConfirm = FALSE],
                             itinerarios', filtroActual, busqueda)
       /\ Aparte
       /\ lastOp' = Op("handleEliminar", eliminandoId, << >>, NULL, "Itinerario eliminado")
       /\ UNCHANGED << now, filtroActual, busqueda, editandoId >>

\* cerrarModal on the modals in ms: close and cancel buttons, backdrop, Escape
cerrarModal(ms) ==
  /\ dom' = [dom EXCEPT !.modalForm = IF "modal-form" \in ms THEN FALSE ELSE @,
                        !.modalConfirm = IF "modal-confirm" \in ms THEN FALSE ELSE @]
  /\ Aparte
  /\ lastOp' = Op("cerrarModal", NULL, << >>, NULL, "")
  /\ UNCHANGED << now, itinerarios, filtroActual, busqueda, editandoId,
                  eliminandoId, localStorage, cuota >>

\* a call validarForm() with the inputs holding form: limpiarErroresForm,
\* then the has-error class on each group that fails, and the verdict
Validar(form) ==
  LET v == validarForm(form)
  IN  /\ dom' = [dom EXCEPT !.errores = v.errores]
      /\ Aparte
      /\ lastOp' = Op("validarForm", NULL, form, v.valido, "")
      /\ UNCHANGED << now, itinerarios, filtroActual, busqueda, editandoId,
                      eliminandoId, localStorage, cuota >>

\* a call calcularDias(fechaInicio, fechaFin)
Dias(fechaInicio, fechaFin) ==
  /\ Aparte
  /\ lastOp' = Op("calcularDias", NULL, << fechaInicio, fechaFin >>,
                  calcularDias(fechaInicio, fechaFin), "")
  /\ UNCHANGED << now, itinerarios, filtroActual, busqueda, editandoId,
                  eliminandoId, localStorage, dom, cuota >>

\* the script runs on a page that has just been loaded: init(), that is
\* cargarItinerarios and render; render throws a TypeError on a value that
\* is not an array and the page stays as the document ships it
init ==
  /\ itinerarios' = cargarItinerarios(localStorage)
  /\ filtroActual' = "todos"
  /\ busqueda' = << >>
  /\ editandoId' = NULL
  /\ eliminandoId' = NULL
  /\ dom' = IF EsArray(cargarItinerarios(localStorage))
            THEN renderCards(Documento, cargarItinerarios(localStorage), "todos", << >>)
            ELSE Documento
  /\ Aparte
  /\ lastOp' = Op("init", NULL, << >>, NULL, "")
  /\ UNCHANGED << now, localStorage, cuota >>

\* a call of crearItinerario, eliminarItinerario or render on a value that
\* is not an array: unshift, filter and the spread throw a TypeError
Excepcion ==
  /\ lastOp.op # "script"
  /\ ~EsArray(itinerarios)
  /\ Aparte
  /\ lastOp' = Op("TypeError", NULL, << >>, NULL, "")
  /\ UNCHANGED << now, itinerarios, filtroActual, busqueda, editandoId,
                  eliminandoId, localStorage, dom, cuota >>

\* a direct call setStorage(STORAGE_KEY, value)
LlamarSetStorage(value) ==
  \E quotaOk \in BOOLEAN :
    /\ quotaOk \/ cuota > 0
    /\ LET r == setStorage(localStorage, value, quotaOk)
       IN  /\ localStorage' = r.held
           /\ Aparte
           /\ lastOp' = Op("setStorage", NULL, value, r.ret, "")
    /\ cuota' = IF quotaOk THEN cuota ELSE cuota - 1
    /\ UNCHANGED << now, itinerarios, filtroActual, busqueda, editandoId,
                    eliminandoId, dom >>

(***************************************************************************)
(* Specifications.                                                         *)
(***************************************************************************)
\* calls of the store's functions, as time passes
Next ==
  \/ Tick
  \/ \E datos \in DatosValidos : Crear(datos)
  \/ \E id \in Ids, datos \in DatosParciales \cup DatosValidos : Editar(id, datos)
  \/ \E id \in Ids : Eliminar(id)

Spec == Init /\ [][Next]_vars

\* the events of the page, as time passes
NextUI ==
  \/ Tick
  \/ \E f \in FILTROS : InputFiltro(f)
  \/ \E q \in Busquedas : InputBusqueda(q)
  \/ abrirFormNuevo
  \/ \E id \in CardIds : abrirFormEditar(id)
  \/ \E form \in Formularios : handleGuardar(form)
  \/ \E id \in CardIds : abrirConfirmEliminar(id)
  \/ handleEliminar
  \/ \E ms \in {{"modal-form"}, {"modal-confirm"}, {"modal-form", "modal-confirm"}} :
       cerrarModal(ms)

SpecUI == InitUI /\ [][NextUI]_vars

\* validations of the form, one after the other
NextValidar == \E form \in Entradas : Validar(form)

SpecValidar == InitUI /\ [][NextValidar]_vars

\* the two dialogs of the page, on a storage that can refuse a write
NextDialogo ==
  \/ Tick
  \/ abrirFormNuevo
  \/ \E id \in CardIds : abrirFormEditar(id)
  \/ \E form \in FormulariosDialogo : handleGuardar(form)
  \/ \E id \in CardIds : abrirConfirmEliminar(id)
  \/ handleEliminar
  \/ \E ms \in {{"modal-form"}, {"modal-confirm"}} : cerrarModal(ms)

SpecDialogo == Init /\ [][NextDialogo]_vars

\* lengths of trips, one after the other
NextDias ==
  \E fechaInicio \in Fechas, fechaFin \in Fechas : Dias(fechaInicio, fechaFin)

SpecDias == InitUI /\ [][NextDias]_vars

\* a page that loads on a storage holding any text: the script has not run
InitAlmacen ==
  /\ now = 999
  /\ localStorage \in Textos
  /\ itinerarios = << >>
  /\ filtroActual = "todos"
  /\ busqueda = << >>
  /\ editandoId = NULL
  /\ eliminandoId = NULL
  /\ dom = Documento
  /\ cuota = MaxFallos
  /\ lastOp = Op("script", NULL, << >>, NULL, "")
  /\ InitOtros

\* loads of the page, calls of the store on what was loaded, writes
NextAlmacen ==
  \/ init
  \/ /\ lastOp.op # "script"
     /\ EsArray(itinerarios)
     /\ \/ \E datos \in DatosValidos : Crear(datos)
        \/ \E id \in Ids : Eliminar(id)
  \/ Excepcion
  \/ \E value \in Colecciones : LlamarSetStorage(value)

SpecAlmacen == InitAlmacen /\ [][NextAlmacen]_vars

(***************************************************************************)
(* Two tabs on the itinerary page.  Each has its own state.itinerarios and *)
(* both share localStorage.  The actions of the store run in the tab that  *)
(* has the turn; itinerarios is its collection, otraPestana the other's.   *)
(***************************************************************************)
\* the other tab gets the turn: nothing is read or written
CambiarPestana ==
  /\ itinerarios' = otraPestana
  /\ otraPestana' = itinerarios
  /\ lastOp' = Op("pestana", NULL, << >>, NULL, "")
  /\ UNCHANGED << now, filtroActual, busqueda, editandoId, eliminandoId,
                  localStorage, dom, cuota, timers, timerId, varsRebote, varsBuscador >>

\* both tabs have run init() once on the same stored text
InitPestanas ==
  /\ now = 999
  /\ localStorage \in { << >> } \cup { JSONstringify(c) : c \in { d \in Colecciones : Len(d) <= 1 } }
  /\ itinerarios = cargarItinerarios(localStorage)
  /\ otraPestana = cargarItinerarios(localStorage)
  /\ filtroActual = "todos"
  /\ busqueda = << >>
  /\ editandoId = NULL
  /\ eliminandoId = NULL
  /\ dom = renderCards(Documento, itinerarios, "todos", << >>)
  /\ cuota = MaxFallos
  /\ lastOp = Op("init", NULL, << >>, NULL, "")
  /\ InitTimers
  /\ SinRebote
  /\ SinBuscador

NextPestanas ==
  \/ Tick
  \/ CambiarPestana
  \/ Crear(Datos(FormularioAsia))
  \/ \E id \in Ids : Editar(id, [estado |-> "confirmado"])
  \/ \E id \in Ids : Eliminar(id)

SpecPestanas == InitPestanas /\ [][NextPestanas]_vars

(***************************************************************************)
(* debounce(func, wait) and the timers of the browser.  A timer is a       *)
(* record [id, resta, fn, args]: resta is the time left before it is due,  *)
(* fn the callback and args what the callback closes over.  A due timer    *)
(* fires when the browser gets to it, which may be later than its delay.   *)
(***************************************************************************)
\* clearTimeout(id): the timer leaves the table; an unknown id does nothing
clearTimeout(ts, id) == { t \in ts : t.id # id }

\* setTimeout(fn, ms) returning id
setTimeout(ts, id, fn, args, ms) ==
  ts \cup { [id |-> id, resta |-> ms, fn |-> fn, args |-> args] }

\* an executedFunction that sets the new timer without clearing the old one
executedFunctionSinClear(args) ==
  /\ rebote.llamadas < MaxLlamadas
  /\ timerId' = timerId + 1
  /\ timers' = setTimeout(timers, timerId + 1, "later", args, wait)
  /\ timeout' = timerId + 1
  /\ rebote' = [rebote EXCEPT !.llamadas = @ + 1, !.desde = 0, !.corridas = 0,
                              !.args = args]
  /\ lastOp' = Op("executedFunction", NULL, << args >>, NULL, "")
  /\ UNCHANGED << now, varsItinerarios, otraPestana, varsBuscador, wait >>

\* a call executedFunction(...args) of the function debounce returned:
\* clearTimeout(timeout); timeout = setTimeout(later, wait)
executedFunction(args) ==
  /\ rebote.llamadas < MaxLlamadas
  /\ timerId' = timerId + 1
  /\ timers' = setTimeout(clearTimeout(timers, timeout), timerId + 1, "later", args, wait)
  /\ timeout' = timerId + 1
  /\ rebote' = [rebote EXCEPT !.llamadas = @ + 1, !.desde = 0, !.corridas = 0,
                              !.args = args]
  /\ lastOp' = Op("executedFunction", NULL, << args >>, NULL, "")
  /\ UNCHANGED << now, varsItinerarios, otraPestana, varsBuscador, wait >>

\* the browser fires the due timer t, whose callback is later:
\* clearTimeout(timeout); func(...args)
later(t) ==
  /\ t.fn = "later"
  /\ t.resta = 0
  /\ timers' = clearTimeout(timers \ {t}, timeout)
  /\ rebote' = [rebote EXCEPT !.corridas = @ + 1, !.ultimo = t.args]
  /\ lastOp' = Op("func", NULL, << t.args >>, NULL, "")
  /\ UNCHANGED << now, varsItinerarios, otraPestana, varsBuscador, timerId, timeout, wait >>

\* a millisecond passes for the timers; a due timer may be kept waiting for
\* MaxRetraso ms
Pasar ==
  /\ rebote.llamadas > 0
  /\ rebote.desde < wait + MaxRetraso
  /\ timers' = { [t EXCEPT !.resta = IF @ > 0 THEN @ - 1 ELSE 0] : t \in timers }
  /\ rebote' = [rebote EXCEPT !.desde = @ + 1]
  /\ lastOp' = Op("pasar", NULL, << >>, NULL, "")
  /\ UNCHANGED << now, varsItinerarios, otraPestana, varsBuscador, timerId, timeout, wait >>

\* debounce(func, wait) has just returned; wait is one of 0..MaxEspera
InitRebote ==
  /\ InitPagina(0)
  /\ lastOp = Op("debounce", NULL, << >>, NULL, "")
  /\ otraPestana = << >>
  /\ InitTimers
  /\ timeout = 0
  /\ wait \in 0..MaxEspera
  /\ rebote = SinLlamadas
  /\ SinBuscador

NextRebote ==
  \/ \E args \in Argumentos : executedFunction(args)
  \/ \E t \in timers : later(t)
  \/ Pasar

SpecRebote == InitRebote /\ [][NextRebote]_vars

\* the browser does fire a due timer, and time does pass
SpecReboteJusto ==
  SpecRebote /\ WF_vars(\E t \in timers : later(t)) /\ WF_vars(Pasar)

(***************************************************************************)
(* The search page (main.js): validation of the query, the search history  *)
(* under SEARCH_HISTORY, and the delayed navigation to the results.        *)
(***************************************************************************)
\* CONFIG.SEARCH and CONFIG.HISTORY
MIN_LENGTH == 2
MAX_LENGTH == 100
ERROR_TIMEOUT == 5000
SUBMIT_DELAY == 300
MAX_ITEMS == 10

\* CONFIG.ROUTES.DESTINATIONS followed by ?q= : /pages/destinos.html?q=
DESTINATIONS ==
  << 47, 112, 97, 103, 101, 115, 47, 100, 101, 115, 116, 105, 110, 111, 115,
     46, 104, 116, 109, 108, 63, 113, 61 >>

\* CONFIG.MESSAGES.ERRORS.GENERIC: Ocurrio un error. Por favor intenta nuevamente.
GENERIC ==
  << 79, 99, 117, 114, 114, 105, 243, 32, 117, 110, 32, 101, 114, 114, 111,
     114, 46, 32, 80, 111, 114, 32, 102, 97, 118, 111, 114, 32, 105, 110,
     116, 101, 110, 116, 97, 32, 110, 117, 101, 118, 97, 109, 101, 110,
     116, 101, 46 >>

\* CONFIG.MESSAGES.ERRORS.SEARCH_EMPTY: Por favor ingresa un destino para buscar
SEARCH_EMPTY ==
  << 80, 111, 114, 32, 102, 97, 118, 111, 114, 32, 105, 110, 103, 114, 101,
     115, 97, 32, 117, 110, 32, 100, 101, 115, 116, 105, 110, 111, 32, 112,
     97, 114, 97, 32, 98, 117, 115, 99, 97, 114 >>

\* CONFIG.MESSAGES.ERRORS.SEARCH_TOO_SHORT: La busqueda debe tener al menos 2 caracteres
SEARCH_TOO_SHORT ==
  << 76, 97, 32, 98, 250, 115, 113, 117, 101, 100, 97, 32, 100, 101, 98, 101,
     32, 116, 101, 110, 101, 114, 32, 97, 108, 32, 109, 101, 110, 111, 115,
     32, 50, 32, 99, 97, 114, 97, 99, 116, 101, 114, 101, 115 >>

\* CONFIG.MESSAGES.ERRORS.SEARCH_TOO_LONG: La busqueda es demasiado larga
SEARCH_TOO_LONG ==
  << 76, 97, 32, 98, 250, 115, 113, 117, 101, 100, 97, 32, 101, 115, 32, 100,
     101, 109, 97, 115, 105, 97, 100, 111, 32, 108, 97, 114, 103, 97 >>

\* sanitize(str): the text as the innerHTML of a div holding it, which
\* escapes & < > and the no-break space
RECURSIVE sanitize(_)
sanitize(str) ==
  IF str = << >> THEN << >>
  ELSE (CASE Head(str) = 38 -> << 38, 97, 109, 112, 59 >>
          [] Head(str) = 60 -> << 38, 108, 116, 59 >>
          [] Head(str) = 62 -> << 38, 103, 116, 59 >>
          [] Head(str) = 160 -> << 38, 110, 98, 115, 112, 59 >>
          [] OTHER -> << Head(str) >>) \o sanitize(Tail(str))

\* validateSearch accepting a query of MAX_LENGTH + 1
validateSearchUnoMas(query) ==
  IF query = << >> \/ trim(query) = << >>
  THEN [valid |-> FALSE, error |-> SEARCH_EMPTY]
  ELSE IF Len(query) < MIN_LENGTH
  THEN [valid |-> FALSE, error |-> SEARCH_TOO_SHORT]
  ELSE IF Len(query) > MAX_LENGTH + 1
  THEN [valid |-> FALSE, error |-> SEARCH_TOO_LONG]
  ELSE [valid |-> TRUE, error |-> NULL]

\* validateSearch(query)
validateSearch(query) ==
  IF query = << >> \/ trim(query) = << >>
  THEN [valid |-> FALSE, error |-> SEARCH_EMPTY]
  ELSE IF Len(query) < MIN_LENGTH
  THEN [valid |-> FALSE, error |-> SEARCH_TOO_SHORT]
  ELSE IF Len(query) > MAX_LENGTH
  THEN [valid |-> FALSE, error |-> SEARCH_TOO_LONG]
  ELSE [valid |-> TRUE, error |-> NULL]

\* saveSearchToHistory keeping the entries that were saved first
saveSearchToHistoryAlFinal(held, query, t) ==
  LET normalizedQuery == toLowerCase(trim(query))
      leido == getStorage(held, << >>)
      filtrado == SelectSeq(leido, LAMBDA item :
                    ~("query" \in DOMAIN item /\ item["query"] = normalizedQuery))
      nuevo == filtrado \o << [query |-> normalizedQuery, timestamp |-> toISOString(t)] >>
  IN  [lanza |-> ~EsArray(leido),
       searchHistory |-> SubSeq(nuevo, 1, IF Len(nuevo) < MAX_ITEMS THEN Len(nuevo)
                                                                   ELSE MAX_ITEMS)]

\* saveSearchToHistory(query) at time t on the text held under the key: the
\* list it writes and keeps in appState; lanza when the stored value has no
\* filter (it is not an array) and the call throws
saveSearchToHistory(held, query, t) ==
  LET normalizedQuery == toLowerCase(trim(query))
      leido == getStorage(held, << >>)
      filtrado == SelectSeq(leido, LAMBDA item :
                    ~("query" \in DOMAIN item /\ item["query"] = normalizedQuery))
      nuevo == << [query |-> normalizedQuery, timestamp |-> toISOString(t)] >> \o filtrado
  IN  [lanza |-> ~EsArray(leido),
       searchHistory |-> SubSeq(nuevo, 1, IF Len(nuevo) < MAX_ITEMS THEN Len(nuevo)
                                                                   ELSE MAX_ITEMS)]

\* the characters encodeURIComponent leaves as they are:
\* A-Z a-z 0-9 - _ . ! ~ * ' ( )
NoReservado(c) ==
  \/ c \in 65..90 \/ c \in 97..122 \/ c \in 48..57
  \/ c \in {45, 95, 46, 33, 126, 42, 39, 40, 41}

\* %XX of one octet, in upper case
Porcentaje(b) ==
  LET hex(d) == IF d < 10 THEN 48 + d ELSE 55 + d
  IN  << 37, hex(b \div 16), hex(b % 16) >>

\* the UTF-8 octets of a code point
UTF8(cp) ==
  IF cp < 128 THEN << cp >>
  ELSE IF cp < 2048 THEN << 192 + (cp \div 64), 128 + (cp % 64) >>
  ELSE IF cp < 65536
  THEN << 224 + (cp \div 4096), 128 + ((cp \div 64) % 64), 128 + (cp % 64) >>
  ELSE << 240 + (cp \div 262144), 128 + ((cp \div 4096) % 64),
          128 + ((cp \div 64) % 64), 128 + (cp % 64) >>

EsAlto(c) == c \in 55296..56319
EsBajo(c) == c \in 56320..57343

\* whether encodeURIComponent(s) throws URIError: s has a lone surrogate
URIError(s) ==
  \E i \in 1..Len(s) :
    \/ EsAlto(s[i]) /\ (i = Len(s) \/ ~EsBajo(s[i + 1]))
    \/ EsBajo(s[i]) /\ (i = 1 \/ ~EsAlto(s[i - 1]))

\* the pieces f[i] to f[j] put one after the other
RECURSIVE Une(_, _, _)
Une(f, i, j) ==
  IF i > j THEN << >>
  ELSE IF i = j THEN f[i]
  ELSE Une(f, i, (i + j) \div 2) \o Une(f, (i + j) \div 2 + 1, j)

\* the octets of a code point, each as %XX
Escapado(cp) ==
  LET o == UTF8(cp) IN Une([k \in 1..Len(o) |-> Porcentaje(o[k])], 1, Len(o))

\* encodeURIComponent(s) of a string that has no lone surrogate: a character
\* that is not reserved stays, any other becomes the %XX of its UTF-8
\* octets; a surrogate pair is one code point
encodeURIComponent(s) ==
  Une([i \in 1..Len(s) |->
         IF NoReservado(s[i]) THEN << s[i] >>
         ELSE IF EsAlto(s[i])
         THEN Escapado(65536 + (s[i] - 55296) * 1024 + (s[i + 1] - 56320))
         ELSE IF EsBajo(s[i]) THEN << >>
         ELSE Escapado(s[i])],
      1, Len(s))

\* showSearchError(message) on the error box
showSearchError(els, message) ==
  [els EXCEPT !.searchError = [textContent |-> sanitize(message), show |-> TRUE]]

\* hideSearchError() on the error box
hideSearchError(els) == [els EXCEPT !.searchError.show = FALSE]

\* the page is still there: it has not navigated away
EnPagina == location = << >>

\* the least time a pending timer has left
Resta == CHOOSE r \in { t.resta : t \in timers } : \A t \in timers : r <= t.resta

\* what the search box holds when the form is submitted:
\*   "", "  ", "a", " a ", "ab", " Ab ", "a b&c", "a" n-tilde, Tokyo in kanji,
\*   the emoji U+1F600 (two code units), "a" and a lone high surrogate,
\*   100 times "x", the same between two spaces, 101 times "x"
Valores ==
  { << >>, << 32, 32 >>, << 97 >>, << 32, 97, 32 >>, << 97, 98 >>,
    << 32, 65, 98, 32 >>, << 97, 32, 98, 38, 99 >>, << 97, 241 >>,
    << 26481, 20140 >>, << 55357, 56832 >>, << 97, 55357 >>,
    [i \in 1..100 |-> 120],
    << 32 >> \o [i \in 1..100 |-> 120] \o << 32 >>,
    [i \in 1..101 |-> 120] }

\* what SEARCH_HISTORY holds when the page loads: nothing, or the history an
\* earlier visit wrote ("ab", then "roma")
Historiales ==
  { << >>,
    JSONstringify(saveSearchToHistory(
      JSONstringify(saveSearchToHistory(<< >>, << 97, 98 >>, 500).searchHistory),
      << 114, 111, 109, 97 >>, 600).searchHistory) }

\* a step time is let pass by, in ms, besides the time to the next due timer:
\* it leaves an error box less than SUBMIT_DELAY from being hidden
Pasos == { ERROR_TIMEOUT - 200 }

\* the script has run on load: loadSearchHistory() and initEventListeners()
InitBuscador ==
  /\ InitPagina(0)
  /\ lastOp = Op("init", NULL, << >>, NULL, "")
  /\ otraPestana = << >>
  /\ InitTimers
  /\ SinRebote
  /\ historial \in Historiales
  /\ appState = [AppState EXCEPT !.searchHistory = getStorage(historial, << >>)]
  /\ elements = Elements
  /\ location = << >>
  /\ buscador = SinEnvios

\* the try block of handleSearchSubmit on the value of the search box, with
\* its catch: validation, then saveSearchToHistory and redirectToResults
procesarEnvio(value) ==
  LET query == trim(value)
      validation == validateSearch(query)
      guardado == saveSearchToHistory(historial, query, now)
  IN  IF ~validation.valid
      THEN /\ appState' = [appState EXCEPT !.currentQuery = query]
           /\ elements' = showSearchError(hideSearchError(elements), validation.error)
           /\ timerId' = timerId + 1
           /\ timers' = setTimeout(timers, timerId + 1, "hideSearchError", << >>,
                                   ERROR_TIMEOUT)
           /\ buscador' = [buscador EXCEPT !.envios = @ + 1, !.resultado = "rechazado"]
           /\ lastOp' = Op("submit", NULL, value, NULL, "")
           /\ UNCHANGED << historial, cuota >>
      ELSE IF guardado.lanza
      THEN /\ appState' = [appState EXCEPT !.currentQuery = query, !.isSearching = FALSE]
           /\ elements' = showSearchError(hideSearchError(elements), GENERIC)
           /\ timerId' = timerId + 1
           /\ timers' = setTimeout(timers, timerId + 1, "hideSearchError", << >>,
                                   ERROR_TIMEOUT)
           /\ buscador' = [buscador EXCEPT !.envios = @ + 1, !.resultado = "error"]
           /\ lastOp' = Op("submit", NULL, value, NULL, "")
           /\ UNCHANGED << historial, cuota >>
      ELSE /\ \E quotaOk \in BOOLEAN :
                /\ quotaOk \/ cuota > 0
                /\ historial' = setStorage(historial, guardado.searchHistory, quotaOk).held
                /\ cuota' = IF quotaOk THEN cuota ELSE cuota - 1
           /\ appState' = [searchHistory |-> guardado.searchHistory,
                           isSearching |-> TRUE, currentQuery |-> query]
           /\ elements' = [hideSearchError(elements) EXCEPT !.searchButton.disabled = TRUE]
           /\ timerId' = timerId + 1
           /\ timers' = setTimeout(timers, timerId + 1, "navegar", query, SUBMIT_DELAY)
           /\ buscador' = [buscador EXCEPT !.envios = @ + 1, !.escrituras = @ + 1,
                                           !.resultado = "aceptado",
                                           !.aceptada = query, !.desde = 0]
           /\ lastOp' = Op("submit", NULL, value, NULL, "")

\* a handleSearchSubmit that does not look at appState.isSearching
handleSearchSubmitSinGuarda(value) ==
  /\ EnPagina
  /\ buscador.envios < MaxEnvios
  /\ procesarEnvio(value)
  /\ UNCHANGED << now, itinerarios, filtroActual, busqueda, editandoId, eliminandoId,
                  localStorage, dom, otraPestana, varsRebote, location >>

\* the submit event of the search form: handleSearchSubmit(e)
handleSearchSubmit(value) ==
  /\ EnPagina
  /\ buscador.envios < MaxEnvios
  /\ IF appState.isSearching
     THEN /\ buscador' = [buscador EXCEPT !.envios = @ + 1, !.resultado = "ignorado"]
          /\ lastOp' = Op("submit", NULL, value, NULL, "")
          /\ UNCHANGED << appState, historial, elements, timers, timerId, cuota >>
     ELSE procesarEnvio(value)
  /\ UNCHANGED << now, itinerarios, filtroActual, busqueda, editandoId, eliminandoId,
                  localStorage, dom, otraPestana, varsRebote, location >>

\* the input event of the search box: handleSearchInput()
handleSearchInput ==
  /\ EnPagina
  /\ elements.searchError.show
  /\ elements' = hideSearchError(elements)
  /\ lastOp' = Op("input", NULL, << >>, NULL, "")
  /\ UNCHANGED << now, varsItinerarios, otraPestana, varsRebote, timers, timerId,
                  appState, historial, location, buscador >>

\* the timer showSearchError set is due: hideSearchError()
ocultarError(t) ==
  /\ EnPagina
  /\ t.fn = "hideSearchError"
  /\ t.resta = 0
  /\ timers' = timers \ {t}
  /\ elements' = hideSearchError(elements)
  /\ lastOp' = Op("hideSearchError", NULL, << >>, NULL, "")
  /\ UNCHANGED << now, varsItinerarios, otraPestana, varsRebote, timerId,
                  appState, historial, location, buscador >>

\* the timer redirectToResults set is due: encodeURIComponent(query), then
\* window.location.href is assigned and the page, with its timers, is left;
\* when encodeURIComponent throws, the callback ends there
navegar(t) ==
  /\ EnPagina
  /\ t.fn = "navegar"
  /\ t.resta = 0
  /\ IF URIError(t.args)
     THEN /\ timers' = timers \ {t}
          /\ lastOp' = Op("URIError", NULL, t.args, NULL, "")
          /\ UNCHANGED << location, buscador >>
     ELSE /\ timers' = {}
          /\ location' = DESTINATIONS \o encodeURIComponent(t.args)
          /\ buscador' = [buscador EXCEPT !.navegaciones = @ + 1]
          /\ lastOp' = Op("navegar", NULL, t.args, NULL, "")
  /\ UNCHANGED << now, varsItinerarios, otraPestana, varsRebote, timerId,
                  appState, historial, elements >>

\* d ms pass, no more than the first pending timer has left (the clock the
\* history entries are stamped with is moved by Tick)
Avanzar(d) ==
  /\ EnPagina
  /\ timers # {}
  /\ d > 0
  /\ d <= Resta
  /\ timers' = { [t EXCEPT !.resta = @ - d] : t \in timers }
  /\ buscador' = [buscador EXCEPT !.desde = IF buscador.aceptada # << >> THEN @ + d ELSE @]
  /\ lastOp' = Op("avanzar", NULL, << >>, NULL, "")
  /\ UNCHANGED << now, varsItinerarios, otraPestana, varsRebote, timerId,
                  appState, historial, elements, location >>

NextBuscador ==
  \/ Tick
  \/ \E value \in Valores : handleSearchSubmit(value)
  \/ handleSearchInput
  \/ \E t \in timers : ocultarError(t)
  \/ \E t \in timers : navegar(t)
  \/ \E d \in Pasos \cup { t.resta : t \in timers } : Avanzar(d)

SpecBuscador == InitBuscador /\ [][NextBuscador]_vars

\* the browser does fire a due timer, and time does pass while one is pending
SpecBuscadorJusto ==
  /\ SpecBuscador
  /\ WF_vars(\E t \in timers : navegar(t))
  /\ WF_vars(\E t \in timers : ocultarError(t))
  /\ WF_vars(\E d \in Pasos \cup { t.resta : t \in timers } : Avanzar(d))

(***************************************************************************)
(* Direct calls of saveSearchToHistory on an empty history.  The queries   *)
(* are qa, qb, qc, ...; each is handed over as it is or in upper case      *)
(* between blanks.  New queries come in that order; a query saved before   *)
(* can be saved again at any point, MaxRepetidas times in a run.           *)
(***************************************************************************)
\* the k-th query: q followed by the k-th letter
Consulta(k) == << 113, 96 + k >>

\* the forms the k-th query is handed over in: "qa" and " QA  "
Formas(k) == { Consulta(k), << 32, 81, 64 + k, 32, 32 >> }

\* a call saveSearchToHistory(query), query being a form of the k-th query
LlamarSaveSearchToHistory(k, query) ==
  /\ EnPagina
  /\ \/ k = buscador.consultas + 1
     \/ k <= buscador.consultas /\ buscador.escrituras - buscador.consultas < MaxRepetidas
  /\ LET guardado == saveSearchToHistory(historial, query, now)
     IN  IF guardado.lanza
         THEN /\ lastOp' = Op("TypeError", NULL, query, NULL, "")
              /\ UNCHANGED << historial, cuota, appState, buscador >>
         ELSE /\ \E quotaOk \in BOOLEAN :
                   /\ quotaOk \/ cuota > 0
                   /\ historial' = setStorage(historial, guardado.searchHistory, quotaOk).held
                   /\ cuota' = IF quotaOk THEN cuota ELSE cuota - 1
              /\ appState' = [appState EXCEPT !.searchHistory = guardado.searchHistory]
              /\ buscador' = [buscador EXCEPT !.escrituras = @ + 1,
                                              !.consultas = IF k > @ THEN k ELSE @]
              /\ lastOp' = Op("saveSearchToHistory", NULL, query, NULL, "")
  /\ UNCHANGED << now, itinerarios, filtroActual, busqueda, editandoId, eliminandoId,
                  localStorage, dom, otraPestana, timers, timerId, varsRebote,
                  elements, location >>

\* the search page loaded on an empty history
InitHistorial ==
  /\ InitBuscador
  /\ historial = << >>

NextHistorial ==
  \/ Tick
  \/ \E k \in 1..MaxConsultas : \E query \in Formas(k) : LlamarSaveSearchToHistory(k, query)

SpecHistorial == InitHistorial /\ [][NextHistorial]_vars

(***************************************************************************)
(* Vocabulary of the properties.                                           *)
(***************************************************************************)
\* the latest step called crearItinerario (directly or from the form)
EsCreacion(o) ==
  o.op = "crear" \/ (o.op = "handleGuardar" /\ o.toast = "Itinerario creado correctamente")

\* the latest step called editarItinerario (directly or from the form)
EsEdicion(o) ==
  o.op = "editar" \/ (o.op = "handleGuardar" /\ o.toast = "Itinerario actualizado correctamente")

\* positions of the records of its that carry id
Con(its, id) == {i \in 1..Len(its) : its[i]["id"] = id}

\* s contains q, letter case aside
ContieneCI(s, q) ==
  \E i \in 1..(Len(s) + 1) : \E j \in (i - 1)..Len(s) :
    toLowerCase(SubSeq(s, i, j)) = toLowerCase(q)

\* the status predicate and the search predicate of the projection
PredEstado(it, f) == f = "todos" \/ it["estado"] = f
PredBusqueda(it, q) ==
  trim(q) = << >> \/ ContieneCI(it["destino"], q) \/ ContieneCI(it["nombre"], q)

\* the unfiltered projection
Todos == getItinerariosFiltrados(itinerarios, "todos", << >>)

(***************************************************************************)
(* C1.  After crearItinerario(datos) the unfiltered projection holds       *)
(* exactly one record with the id the call returned, and that record       *)
(* carries datos unchanged.                                                *)
(***************************************************************************)
C1_CreadoUnaVez ==
  EsCreacion(lastOp) =>
    /\ Cardinality(Con(Todos, lastOp.ret["id"])) = 1
    /\ \A i \in Con(Todos, lastOp.ret["id"]) :
         \A k \in DOMAIN lastOp.datos : Todos[i][k] = lastOp.datos[k]

(***************************************************************************)
(* C2.  No two records of the collection share an id, also when two        *)
(* creates happen without the clock advancing between them.                *)
(***************************************************************************)
C2_IdsUnicos ==
  \A i, j \in 1..Len(itinerarios) :
    i # j => itinerarios[i]["id"] # itinerarios[j]["id"]

(***************************************************************************)
(* C3.  editarItinerario(id, datos) with an id that is not in the          *)
(* collection returns false and leaves state.itinerarios and the text in   *)
(* localStorage as they were.                                              *)
(***************************************************************************)
C3_EditarAusente ==
  [][ (EsEdicion(lastOp') /\ ~find(itinerarios, lastOp'.id)) =>
        /\ lastOp'.ret = FALSE
        /\ itinerarios' = itinerarios
        /\ localStorage' = localStorage ]_vars

\* an edit of an absent id was tried on a collection of two records
C3_Testigo ==
  /\ lastOp.op = "editar"
  /\ lastOp.ret = FALSE
  /\ lastOp.datos = [estado |-> "confirmado"]
  /\ Len(itinerarios) = 2

(***************************************************************************)
(* C4.  editarItinerario(id, datos) with an id of the collection returns   *)
(* true, sets on the record (the first with that id) the properties datos  *)
(* names, and leaves the other records, the length and the order alone.    *)
(* As first stated, every property datos does not name keeps its value:    *)
(* C4_SoloLoSuministrado.  As amended, actualizadoEn is the exception, it  *)
(* is set to the instant of the edit: C4_EditarPresente.                   *)
(***************************************************************************)
\* what an edit of a present id does to the collection, the properties in
\* libres being free to change
MarcoEdicion(libres) ==
  (EsEdicion(lastOp') /\ find(itinerarios, lastOp'.id)) =>
    LET i == findIndex(itinerarios, lastOp'.id)
        d == lastOp'.datos
        antes == itinerarios[i]
        despues == itinerarios'[i]
    IN  /\ lastOp'.ret = TRUE
        /\ Len(itinerarios') = Len(itinerarios)
        /\ \A j \in 1..Len(itinerarios) : j # i => itinerarios'[j] = itinerarios[j]
        /\ DOMAIN despues = (DOMAIN antes) \cup (DOMAIN d) \cup libres
        /\ \A k \in (DOMAIN d) \ libres : despues[k] = d[k]
        /\ \A k \in (DOMAIN antes) \ ((DOMAIN d) \cup libres) : despues[k] = antes[k]

C4_SoloLoSuministrado == [][ MarcoEdicion({}) ]_vars

C4_EditarPresente ==
  [][ /\ MarcoEdicion({"actualizadoEn"})
      /\ (EsEdicion(lastOp') /\ find(itinerarios, lastOp'.id)) =>
           itinerarios'[findIndex(itinerarios, lastOp'.id)]["actualizadoEn"]
             = toISOString(now) ]_vars

\* {estado: 'confirmado'} was merged into the second of two records
C4_Testigo ==
  /\ lastOp.op = "editar"
  /\ lastOp.ret = TRUE
  /\ lastOp.datos = [estado |-> "confirmado"]
  /\ Len(itinerarios) = 2
  /\ findIndex(itinerarios, lastOp.id) = 2
  /\ itinerarios[2]["estado"] = "confirmado"
  /\ itinerarios[1]["estado"] # "confirmado"

(***************************************************************************)
(* C5.  A record has no actualizadoEn until its first successful edit, and *)
(* every successful edit leaves an actualizadoEn strictly newer than the   *)
(* one the record had.                                                     *)
(***************************************************************************)
C5_ActualizadoMasNuevo ==
  [][ /\ EsCreacion(lastOp') => "actualizadoEn" \notin DOMAIN Head(itinerarios')
      /\ (EsEdicion(lastOp') /\ find(itinerarios, lastOp'.id)) =>
           LET i == findIndex(itinerarios, lastOp'.id)
           IN  /\ "actualizadoEn" \in DOMAIN itinerarios'[i]
               /\ "actualizadoEn" \in DOMAIN itinerarios[i] =>
                    StrLess(itinerarios[i]["actualizadoEn"],
                            itinerarios'[i]["actualizadoEn"]) ]_vars

(***************************************************************************)
(* C6.  creadoEn is set by crearItinerario, to the instant of the call,    *)
(* and no later step changes it: every step keeps the id and the creadoEn  *)
(* of each record in place, or puts one new record in front, or takes out  *)
(* the records with the id that was deleted.                               *)
(***************************************************************************)
\* the id and the creadoEn of each record, in order
Sellos(its) == [i \in 1..Len(its) |-> << its[i]["id"], its[i]["creadoEn"] >>]

C6_CreadoEnInmutable ==
  [][ \/ Sellos(itinerarios') = Sellos(itinerarios)
      \/ /\ EsCreacion(lastOp')
         /\ Sellos(itinerarios') =
              << << lastOp'.ret["id"], toISOString(now) >> >> \o Sellos(itinerarios)
      \/ /\ lastOp'.op \in {"eliminar", "handleEliminar"}
         /\ Sellos(itinerarios') =
              SelectSeq(Sellos(itinerarios), LAMBDA p : p[1] # lastOp'.id) ]_vars

\* a record was saved through the form at a later instant than its creation
C6_Testigo ==
  /\ lastOp.op = "handleGuardar"
  /\ lastOp.toast = "Itinerario actualizado correctamente"
  /\ lastOp.ret = TRUE
  /\ \E i \in 1..Len(itinerarios) :
       /\ itinerarios[i]["id"] = lastOp.id
       /\ "actualizadoEn" \in DOMAIN itinerarios[i]
       /\ itinerarios[i]["actualizadoEn"] # itinerarios[i]["creadoEn"]

(***************************************************************************)
(* C7.  After eliminarItinerario(id) no projection holds a record with     *)
(* that id and the other records keep their order; a call with an id that  *)
(* is not in the collection (a second call, or an id never present) leaves *)
(* the collection in memory and the collection held in storage as they     *)
(* were.                                                                   *)
(***************************************************************************)
C7_EliminarIdempotente ==
  [][ lastOp'.op = "eliminar" =>
        /\ \A f \in FILTROS, q \in Terminos :
             Con(getItinerariosFiltrados(itinerarios', f, q), lastOp'.id) = {}
        /\ itinerarios' = SelectSeq(itinerarios, LAMBDA it : it["id"] # lastOp'.id)
        /\ ~find(itinerarios, lastOp'.id) =>
             /\ itinerarios' = itinerarios
             /\ cargarItinerarios(localStorage') = cargarItinerarios(localStorage) ]_vars

(***************************************************************************)
(* C8.  For every collection, filter and search term the projection is the *)
(* records that meet the status predicate and the search predicate, each   *)
(* once, in the order of the collection.                                   *)
(***************************************************************************)
C8_Proyeccion ==
  \A f \in FILTROS, q \in Terminos :
    getItinerariosFiltrados(itinerarios, f, q) =
      SelectSeq(itinerarios, LAMBDA it : PredEstado(it, f) /\ PredBusqueda(it, q))

\* two records, a filter and a term that keep one of them, and a filter and
\* a term that keep both
C8_Testigo ==
  /\ Len(itinerarios) = 2
  /\ itinerarios[1] # itinerarios[2]
  /\ \E f \in ESTADOS, q \in Terminos :
       /\ trim(q) # << >>
       /\ Len(getItinerariosFiltrados(itinerarios, f, q)) = 1
  /\ \E f \in ESTADOS, q \in Terminos :
       /\ trim(q) # << >>
       /\ Len(getItinerariosFiltrados(itinerarios, f, q)) = 2

(***************************************************************************)
(* C9.  With a search term that is not empty once trimmed, the projection  *)
(* keeps the records whose destino or nombre contains the trimmed term,    *)
(* letter case aside, whatever white space surrounds the term in the box;  *)
(* a term of white space alone filters nothing out.                        *)
(***************************************************************************)
C9_TerminoRecortado ==
  getItinerariosFiltrados(itinerarios, filtroActual, busqueda) =
    SelectSeq(itinerarios, LAMBDA it :
      PredEstado(it, filtroActual) /\ PredBusqueda(it, trim(busqueda)))

(***************************************************************************)
(* C10.  A change of the filter or of the search term, with the projection *)
(* and the rendering it triggers, leaves state.itinerarios and the text in *)
(* localStorage as they were.                                              *)
(***************************************************************************)
C10_ProyeccionNoMuta ==
  [][ lastOp'.op \in {"filtro", "busqueda"} =>
        /\ itinerarios' = itinerarios
        /\ localStorage' = localStorage ]_vars

\* a filter was chosen that hides one of two records
C10_Testigo ==
  /\ lastOp.op = "filtro"
  /\ filtroActual # "todos"
  /\ Len(itinerarios) = 2
  /\ Len(getItinerariosFiltrados(itinerarios, filtroActual, busqueda)) = 1
  /\ localStorage = JSONstringify(itinerarios)

(***************************************************************************)
(* C11.  validarForm flags each group by its own rule and no other: nombre *)
(* iff it is empty once trimmed, destino iff it is empty once trimmed,     *)
(* fechaInicio iff it is absent, fechaFin iff it is absent or fechaInicio  *)
(* is present and fechaFin < fechaInicio as strings; it returns true iff   *)
(* no group is flagged; flags of an earlier validation do not remain.      *)
(***************************************************************************)
\* s is empty or white space alone
EnBlanco(s) == \A i \in 1..Len(s) : IsSpace(s[i])

C11_ValidarCampos ==
  lastOp.op = "validarForm" =>
    LET f == lastOp.datos
    IN  /\ "fg-nombre" \in dom.errores <=> EnBlanco(f.nombre)
        /\ "fg-destino" \in dom.errores <=> EnBlanco(f.destino)
        /\ "fg-fecha-inicio" \in dom.errores <=> f.fechaInicio = << >>
        /\ "fg-fecha-fin" \in dom.errores <=>
             \/ f.fechaFin = << >>
             \/ (f.fechaInicio # << >> /\ StrLess(f.fechaFin, f.fechaInicio))
        /\ dom.errores \subseteq {"fg-nombre", "fg-destino", "fg-fecha-inicio", "fg-fecha-fin"}
        /\ lastOp.ret <=> dom.errores = {}

\* nombre "", destino "X", 2026-01-01 to 2025-12-31: nombre and fechaFin are
\* flagged together, destino and fechaInicio are not
C11_Testigo ==
  /\ lastOp.op = "validarForm"
  /\ lastOp.datos.nombre = << >>
  /\ lastOp.datos.destino = << 88 >>
  /\ lastOp.datos.fechaInicio = << 50, 48, 50, 54, 45, 48, 49, 45, 48, 49 >>
  /\ lastOp.datos.fechaFin = << 50, 48, 50, 53, 45, 49, 50, 45, 51, 49 >>
  /\ dom.errores = {"fg-nombre", "fg-fecha-fin"}
  /\ lastOp.ret = FALSE

(***************************************************************************)
(* C12.  handleGuardar on inputs that fail the validation (a group is      *)
(* flagged) leaves state.itinerarios, the text in localStorage and         *)
(* state.editandoId as they were, leaves the form modal as it was (open),  *)
(* and shows no toast.                                                     *)
(***************************************************************************)
C12_GuardarInvalido ==
  [][ (lastOp'.op = "handleGuardar" /\ dom'.errores # {}) =>
        /\ itinerarios' = itinerarios
        /\ localStorage' = localStorage
        /\ editandoId' = editandoId
        /\ dom'.modalForm = dom.modalForm
        /\ lastOp'.toast = "" ]_vars

\* Guardar was pressed on a form that is not valid while a record was being
\* edited: the modal is open, two groups are flagged
C12_Testigo ==
  /\ lastOp.op = "handleGuardar"
  /\ dom.errores = {"fg-nombre", "fg-fecha-fin"}
  /\ dom.modalForm
  /\ editandoId # NULL
  /\ find(itinerarios, editandoId)
  /\ lastOp.toast = ""

(***************************************************************************)
(* C13.  Whatever form saves and deletes have happened, every record of    *)
(* the collection has a nombre and a destino that are not empty, both      *)
(* dates, and a fechaFin that does not precede its fechaInicio.            *)
(***************************************************************************)
C13_RegistrosValidos ==
  \A i \in 1..Len(itinerarios) :
    /\ itinerarios[i]["nombre"] # << >>
    /\ itinerarios[i]["destino"] # << >>
    /\ itinerarios[i]["fechaInicio"] # << >>
    /\ itinerarios[i]["fechaFin"] # << >>
    /\ ~StrLess(itinerarios[i]["fechaFin"], itinerarios[i]["fechaInicio"])

\* a record was created, edited through the form, and a form with its dates
\* exchanged was then turned down
C13_Testigo ==
  /\ lastOp.op = "handleGuardar"
  /\ dom.errores = {"fg-fecha-fin"}
  /\ Len(itinerarios) = 1
  /\ "actualizadoEn" \in DOMAIN itinerarios[1]
  /\ StrLess(itinerarios[1]["fechaInicio"], itinerarios[1]["fechaFin"])

(***************************************************************************)
(* C14.  Every record saved through the form has a budget that is a number *)
(* and is not negative.                                                    *)
(***************************************************************************)
C14_BudgetNoNegativo ==
  \A i \in 1..Len(itinerarios) :
    /\ itinerarios[i]["budget"] \in Int
    /\ itinerarios[i]["budget"] >= 0

(***************************************************************************)
(* C15.  crearItinerario puts the new record at position 0, in front of    *)
(* the records there were, and in every state the collection is in the     *)
(* order of creation, the most recently created record first: no record    *)
(* stands before one with a later creadoEn.                                *)
(***************************************************************************)
\* no record stands before one that was created later
OrdenadoPorCreacion ==
  \A i, j \in 1..Len(itinerarios) :
    i < j => ~StrLess(itinerarios[i]["creadoEn"], itinerarios[j]["creadoEn"])

C15_OrdenDeCreacion ==
  /\ []OrdenadoPorCreacion
  /\ [][ EsCreacion(lastOp') =>
           /\ Head(itinerarios') = lastOp'.ret
           /\ Tail(itinerarios') = itinerarios ]_vars

\* the older of two records, created at different instants, was edited and
\* is still the second
C15_Testigo ==
  /\ lastOp.op = "editar"
  /\ lastOp.ret = TRUE
  /\ Len(itinerarios) = 2
  /\ StrLess(itinerarios[2]["creadoEn"], itinerarios[1]["creadoEn"])
  /\ "actualizadoEn" \in DOMAIN itinerarios[2]
  /\ "actualizadoEn" \notin DOMAIN itinerarios[1]

(***************************************************************************)
(* C16.  For two calendar dates with fechaFin >= fechaInicio, calcularDias *)
(* is the number of days from fechaInicio to fechaFin plus one; for any    *)
(* two dates, also with fechaFin < fechaInicio, it is at least 1.          *)
(***************************************************************************)
\* whether y is a leap year, and the number of days of month m of year y
Bisiesto(y) == y % 4 = 0 /\ (y % 100 # 0 \/ y % 400 = 0)
DiasDelMes(y, m) ==
  IF m = 2 THEN (IF Bisiesto(y) THEN 29 ELSE 28)
  ELSE IF m \in {4, 6, 9, 11} THEN 30 ELSE 31

\* the first day of the month after the month of the day f
MesSiguiente(f) ==
  IF f[2] < 12 THEN << f[1], f[2] + 1, 1 >> ELSE << f[1] + 1, 1, 1 >>

\* the number of days to go from the day a to the day b, b not before a:
\* within one month the difference of the days, else the days left of the
\* month of a and the days from the first of the next month
RECURSIVE DiasHasta(_, _)
DiasHasta(a, b) ==
  IF a[1] = b[1] /\ a[2] = b[2] THEN b[3] - a[3]
  ELSE (DiasDelMes(a[1], a[2]) - a[3] + 1) + DiasHasta(MesSiguiente(a), b)

C16_DiasInclusivos ==
  lastOp.op = "calcularDias" =>
    LET fechaInicio == lastOp.datos[1]
        fechaFin == lastOp.datos[2]
    IN  /\ lastOp.ret >= 1
        /\ ~StrLess(fechaFin, fechaInicio) =>
             lastOp.ret = DiasHasta(Fecha(fechaInicio), Fecha(fechaFin)) + 1

\* from 2024-02-28 to 2024-03-01, over the 29th of February: 3 days
C16_Testigo ==
  /\ lastOp.op = "calcularDias"
  /\ lastOp.datos[1] = << 50, 48, 50, 52, 45, 48, 50, 45, 50, 56 >>
  /\ lastOp.datos[2] = << 50, 48, 50, 52, 45, 48, 51, 45, 48, 49 >>
  /\ lastOp.ret = 3

(***************************************************************************)
(* C17.  Whatever text the key holds when the page loads (none, one that   *)
(* JSON.parse refuses, one it accepts), state.itinerarios is an array once *)
(* cargarItinerarios has run, and it is the empty array when the key holds *)
(* nothing or a text that JSON.parse refuses.                              *)
(***************************************************************************)
C17_CargaSegura ==
  lastOp.op = "init" =>
    /\ EsArray(itinerarios)
    /\ (localStorage = << >> \/ ~IsJSON(localStorage)) => itinerarios = << >>

C19_PersistidoIgualAMemoria ==
  lastOp.op \in {"crear", "editar", "eliminar"} =>
    cargarItinerarios(localStorage) = itinerarios

(***************************************************************************)
(* C20.  When the write to localStorage of a form save or of a delete      *)
(* fails, the page shows a notification of the error and not the one of    *)
(* the success of the operation.                                           *)
(***************************************************************************)
\* the toasts the handlers show when an operation went through
ToastsDeExito ==
  { "Itinerario creado correctamente", "Itinerario actualizado correctamente",
    "Itinerario eliminado" }

C20_FalloNotificado ==
  [][ (lastOp'.op \in {"handleGuardar", "handleEliminar"} /\ cuota' < cuota) =>
        /\ lastOp'.toast # ""
        /\ lastOp'.toast \notin ToastsDeExito ]_vars

(***************************************************************************)
(* C25.  A form save while state.editandoId names no record of the         *)
(* collection (the record was deleted after abrirFormEditar) changes       *)
(* nothing and creates nothing, and the toast 'Itinerario actualizado      *)
(* correctamente' is shown only by a save that changed a record.           *)
(***************************************************************************)
C25_EdicionDeAusenteSilenciosa ==
  [][ (lastOp'.op = "handleGuardar" /\ dom'.errores = {}
         /\ editandoId # NULL /\ ~find(itinerarios, editandoId)) =>
        /\ itinerarios' = itinerarios
        /\ lastOp'.toast # "Itinerario actualizado correctamente" ]_vars

(***************************************************************************)
(* C28.  After every renderCards exactly one of the three areas is shown:  *)
(* the empty state iff the collection is empty, the no-results message iff *)
(* the collection is not empty and the projection is, the grid iff the     *)
(* projection is not empty.                                                *)
(***************************************************************************)
C28_UnAreaVisible ==
  LET filtrados == getItinerariosFiltrados(itinerarios, filtroActual, busqueda)
      visibles == (IF dom.emptyState # "none" THEN {"emptyState"} ELSE {})
                  \cup (IF dom.noResults # "none" THEN {"noResults"} ELSE {})
                  \cup (IF dom.grid # "none" THEN {"grid"} ELSE {})
  IN  /\ Cardinality(visibles) = 1
      /\ "emptyState" \in visibles <=> Len(itinerarios) = 0
      /\ "noResults" \in visibles <=> (Len(itinerarios) > 0 /\ Len(filtrados) = 0)
      /\ "grid" \in visibles <=> Len(filtrados) > 0

\* the search box was filled with a term no record of the collection has,
\* after the grid had been shown: the no-results message alone is shown
C28_Testigo ==
  /\ lastOp.op = "busqueda"
  /\ Len(itinerarios) = 2
  /\ trim(busqueda) # << >>
  /\ dom.noResults = "block"
  /\ dom.grid = "none"
  /\ dom.emptyState = "none"
  /\ Len(dom.cards) > 0

(***************************************************************************)
(* C29.  A valid save after abrirFormNuevo creates one record: the         *)
(* collection grows by one and the records there were are unchanged, also  *)
(* when an edit form was opened before.  A valid save after                *)
(* abrirFormEditar(id) changes no record but the one with that id and      *)
(* keeps the length.  The form a save belongs to is the one opened last:   *)
(* abrirFormNuevo leaves no id being edited, abrirFormEditar(id) of a      *)
(* record leaves id, and no other step changes it.                         *)
(***************************************************************************)
C29_GuardarSegunFormulario ==
  [][ /\ lastOp'.op = "abrirFormNuevo" => editandoId' = NULL
      /\ (lastOp'.op = "abrirFormEditar" /\ find(itinerarios, lastOp'.id)) =>
           editandoId' = lastOp'.id
      /\ lastOp'.op \notin {"abrirFormNuevo", "abrirFormEditar"} =>
           editandoId' = editandoId
      /\ (lastOp'.op = "handleGuardar" /\ dom'.errores = {} /\ editandoId = NULL) =>
           /\ Len(itinerarios') = Len(itinerarios) + 1
           /\ Tail(itinerarios') = itinerarios
      /\ (lastOp'.op = "handleGuardar" /\ dom'.errores = {} /\ editandoId # NULL) =>
           /\ Len(itinerarios') = Len(itinerarios)
           /\ \A i \in 1..Len(itinerarios) :
                itinerarios[i]["id"] # editandoId => itinerarios'[i] = itinerarios[i] ]_vars

\* a record was created by a save after abrirFormNuevo, while another record
\* had been edited through the form before
C29_Testigo ==
  /\ lastOp.op = "handleGuardar"
  /\ lastOp.toast = "Itinerario creado correctamente"
  /\ editandoId = NULL
  /\ Len(itinerarios) = 2
  /\ "actualizadoEn" \in DOMAIN itinerarios[2]
  /\ itinerarios[1]["id"] # itinerarios[2]["id"]

(***************************************************************************)
(* C30.  handleEliminar removes a record only while the confirmation       *)
(* opened for the id of that record is still open (not cancelled, not      *)
(* closed by the backdrop or by Escape), and what it removes is the one    *)
(* record the confirmation was opened for.                                 *)
(***************************************************************************)
C30_EliminarSoloConfirmado ==
  [][ (lastOp'.op = "handleEliminar" /\ itinerarios' # itinerarios) =>
        /\ dom.modalConfirm
        /\ Len(itinerarios') = Len(itinerarios) - 1
        /\ \A i \in 1..Len(itinerarios') : itinerarios'[i]["id"] # eliminandoId ]_vars

\* the step was a call of the store that wrote the collection to the key
Escribio ==
  /\ \/ lastOp'.op \in {"crear", "eliminar"}
     \/ lastOp'.op = "editar" /\ lastOp'.ret = TRUE
  /\ cuota' = cuota

C24_Debounce ==
  /\ [](Cardinality(timers) <= 1 /\ rebote.corridas <= 1)
  /\ [][ lastOp'.op = "func" =>
            /\ rebote.desde >= wait
            /\ rebote'.ultimo = rebote.args
            /\ rebote.corridas = 0 /\ rebote'.corridas = 1
            /\ timers' = {} ]_vars
  /\ (rebote.llamadas > 0) ~> (rebote.corridas = 1)
  /\ <>[](rebote.llamadas > 0 => rebote.corridas = 1 /\ timers = {})

\* three calls in a row with different arguments, then silence for the wait
\* and longer, and func has run once with what the third call was given
C24_Testigo ==
  /\ lastOp.op = "func"
  /\ rebote.llamadas = 3
  /\ wait > 0
  /\ rebote.desde > wait
  /\ rebote.corridas = 1
  /\ rebote.ultimo = 2
  /\ timerId = 3 /\ timers = {}

(***************************************************************************)
(* C27.  The values of the search box with the length each has once the    *)
(* white space at its ends is removed (in UTF-16 code units, the unit of   *)
(* String length), written out by hand.                                    *)
(***************************************************************************)
LargoRecortado ==
  { << << >>, 0 >>,
    << << 32, 32 >>, 0 >>,
    << << 97 >>, 1 >>,
    << << 32, 97, 32 >>, 1 >>,
    << << 97, 98 >>, 2 >>,
    << << 32, 65, 98, 32 >>, 2 >>,
    << << 97, 32, 98, 38, 99 >>, 5 >>,
    << << 97, 241 >>, 2 >>,
    << << 26481, 20140 >>, 2 >>,
    << << 55357, 56832 >>, 2 >>,
    << << 97, 55357 >>, 2 >>,
    << [i \in 1..100 |-> 120], 100 >>,
    << << 32 >> \o [i \in 1..100 |-> 120] \o << 32 >>, 100 >>,
    << [i \in 1..101 |-> 120], 101 >> }

\* the length the table gives for a value of the search box
Largo(value) == CHOOSE n \in 0..(MAX_LENGTH + 1) : << value, n >> \in LargoRecortado

\* the message of the first rule a query of length n fails, in the order
\* empty, too short, too long
MensajeEsperado(n) ==
  IF n = 0 THEN SEARCH_EMPTY ELSE IF n < 2 THEN SEARCH_TOO_SHORT ELSE SEARCH_TOO_LONG

\* the timers that will navigate to the results
Navegaciones(ts) == { t \in ts : t.fn = "navegar" }

\* C27: a submit handled while no search is under way is accepted if and only
\* if the trimmed length of the value is between 2 and 100; an accepted one
\* sets isSearching and schedules the navigation; a rejected one leaves the
\* history in memory and in storage as it was, schedules no navigation,
\* leaves isSearching false, and shows the message of the first failing rule
C27_AceptaSegunLongitud ==
  [][ (lastOp'.op = "submit" /\ ~appState.isSearching) =>
        LET n == Largo(lastOp'.datos) IN
          /\ (buscador'.resultado = "aceptado") <=> (n >= 2 /\ n <= 100)
          /\ buscador'.resultado = "aceptado" =>
                /\ appState'.isSearching
                /\ Cardinality(Navegaciones(timers')) = 1
          /\ ~(n >= 2 /\ n <= 100) =>
                /\ buscador'.resultado = "rechazado"
                /\ appState'.searchHistory = appState.searchHistory
                /\ historial' = historial
                /\ Navegaciones(timers') = {}
                /\ ~appState'.isSearching
                /\ elements'.searchError =
                     [textContent |-> MensajeEsperado(n), show |-> TRUE] ]_vars

\* a value of 101 characters was rejected as too long, and the next submit,
\* 100 characters between two spaces, has been accepted
C27_Testigo ==
  /\ lastOp.op = "submit"
  /\ buscador.resultado = "aceptado"
  /\ lastOp.datos = << 32 >> \o [i \in 1..100 |-> 120] \o << 32 >>
  /\ buscador.envios = 2
  /\ elements.searchError.textContent = SEARCH_TOO_LONG
  /\ appState.isSearching

(***************************************************************************)
(* C26.  Once a submit has been accepted, every later submit is ignored    *)
(* until the page navigates: from load to navigation the history is        *)
(* written at most once and at most one navigation timer is pending.       *)
(***************************************************************************)
C26_UnSoloEnvio ==
  /\ [](buscador.escrituras <= 1 /\ Cardinality(Navegaciones(timers)) <= 1)
  /\ [][ (lastOp'.op = "submit" /\ appState.isSearching) =>
            /\ buscador'.resultado = "ignorado"
            /\ UNCHANGED << appState, historial, elements, timers, location >>
            /\ buscador'.escrituras = buscador.escrituras ]_vars

\* a valid submit arrives while the navigation of an accepted one is pending
C26_Testigo ==
  /\ lastOp.op = "submit"
  /\ buscador.resultado = "ignorado"
  /\ lastOp.datos = << 97, 32, 98, 38, 99 >>
  /\ appState.currentQuery = << 97, 98 >>
  /\ buscador.escrituras = 1
  /\ Cardinality(Navegaciones(timers)) = 1
  /\ location = << >>

(***************************************************************************)
(* C22.  The queries the page accepts with their percent-encoded form,     *)
(* written out by hand: ab, Ab, a%20b%26c, a%C3%B1, %E6%9D%B1%E4%BA%AC,    *)
(* %F0%9F%98%80, and 100 times x.                                          *)
(***************************************************************************)
Codificado ==
  { << << 97, 98 >>,
       << 97, 98 >> >>,
    << << 65, 98 >>,
       << 65, 98 >> >>,
    << << 97, 32, 98, 38, 99 >>,
       << 97, 37, 50, 48, 98, 37, 50, 54, 99 >> >>,
    << << 97, 241 >>,
       << 97, 37, 67, 51, 37, 66, 49 >> >>,
    << << 26481, 20140 >>,
       << 37, 69, 54, 37, 57, 68, 37, 66, 49, 37, 69, 52, 37, 66, 65, 37, 65, 67 >> >>,
    << << 55357, 56832 >>,
       << 37, 70, 48, 37, 57, 70, 37, 57, 56, 37, 56, 48 >> >>,
    << [i \in 1..100 |-> 120],
       [i \in 1..100 |-> 120] >> }

\* C22: every accepted submit is in the end followed by one navigation; the
\* page navigates only after a submit was accepted, SUBMIT_DELAY ms or more
\* after it, once, and to the results route with the accepted (trimmed)
\* query percent-encoded as the query parameter q
C22_NavegaTrasEnvio ==
  /\ [][ location' # location =>
            /\ buscador.aceptada # << >>
            /\ buscador.desde >= SUBMIT_DELAY
            /\ buscador.navegaciones = 0 /\ buscador'.navegaciones = 1
            /\ \E par \in Codificado :
                  /\ par[1] = buscador.aceptada
                  /\ location' = DESTINATIONS \o par[2] ]_vars
  /\ (buscador.aceptada # << >>) ~> (buscador.navegaciones = 1)

(***************************************************************************)
(* C21.  The search history under SEARCH_HISTORY after calls of            *)
(* saveSearchToHistory on an empty history.                                *)
(***************************************************************************)
\* the stored history, read back
Guardado(held) == getStorage(held, << >>)

\* the query texts of a history, in order
Textuales(h) == [i \in 1..Len(h) |-> h[i]["query"]]

\* the trimmed, lower-cased text of a form of a query, by the shape of the form
Normalizada(query) ==
  IF query[1] = 32 THEN << query[2] + 32, query[3] + 32 >> ELSE query

\* the first n of a sequence
Primeros(s, n) == SubSeq(s, 1, IF Len(s) < n THEN Len(s) ELSE n)

\* C21: the stored history never has more than 10 entries, never the same
\* query text twice, and no entry is older than one after it; after a call
\* position 0 holds the trimmed, lower-cased query of that call, followed by
\* the entries there were, without that query and in the order they had, the
\* oldest dropped beyond 10; appState.searchHistory is that same list
C21_HistorialReciente ==
  /\ [] LET h == Guardado(historial) IN
          /\ Len(h) <= 10
          /\ \A i \in 1..Len(h) : \A j \in 1..Len(h) :
                i < j => /\ h[i]["query"] # h[j]["query"]
                         /\ ~StrLess(h[i]["timestamp"], h[j]["timestamp"])
  /\ [][ lastOp'.op = "saveSearchToHistory" =>
            LET antes == Textuales(Guardado(historial))
                n == Normalizada(lastOp'.datos)
            IN  /\ Textuales(Guardado(historial'))
                     = Primeros(<< n >> \o SelectSeq(antes, LAMBDA q : q # n), 10)
                /\ appState'.searchHistory = Guardado(historial') ]_vars

\* eleven different queries were saved, so the first one was dropped, and
\* then the fifth again, as " QE  ": it is at position 0, once, the eleventh
\* follows it and the second is the last of the ten
C21_Testigo ==
  /\ lastOp.op = "saveSearchToHistory"
  /\ lastOp.datos = << 32, 81, 69, 32, 32 >>
  /\ buscador.consultas = 11
  /\ Len(Guardado(historial)) = 10
  /\ Guardado(historial)[1]["query"] = << 113, 101 >>
  /\ Guardado(historial)[2]["query"] = << 113, 107 >>
  /\ Guardado(historial)[10]["query"] = << 113, 98 >>

====
